---- MODULE Spec2Model ----
(***************************************************************************)
(* Retrieval-fusion query pipeline of Bible_RAG (backend/app).             *)
(*                                                                         *)
(*   SpecFuse    RRFFusion.fuse applied to caller-built result lists       *)
(*   SpecContext ContextBuilder.build_with_metadata applied to result      *)
(*               lists under a token budget                                *)
(*   SpecGraphContext  the graph context of a response                     *)
(*   Spec        one request through execute_query / RAGPipeline.execute   *)
(*   SpecServices / FairServices  requests sharing the service singletons  *)
(*               and their database sessions                               *)
(*   SpecSparse  SparseRetriever.retrieve called alone                     *)
(*   SpecGraph   the graph step of the pipeline, GraphRetriever.retrieve   *)
(*   SpecSources the passages in the context and in the response           *)
(*   SpecNeo4j   the Neo4jClient lifecycle under interleaved calls         *)
(*                                                                         *)
(* Floating-point RRF scores are modelled as exact rationals: every score  *)
(* is an integer number of 1/Scale(k) units, Scale(k) being a common       *)
(* multiple of all k + rank that can occur.                                *)
(***************************************************************************)
EXTENDS Integers, Sequences, FiniteSets, TLC

\* ------------------------------------------------------------------ bounds
MaxLen == 3        \* longest ranked list handed to fuse
MaxTotal == 5      \* candidates in one fuse input, all lists together
MaxRetrieve == 2   \* rows a relational query returns in the pipeline
MaxGraphRows == 1  \* rows a traversal query returns in the pipeline
MaxResults == 2    \* largest options.max_results a request carries
MaxSegments == 3   \* longest result list handed to the context builder
MaxTokens == 30    \* largest explicit max_tokens given to ContextBuilder
MaxTopK == 2           \* largest top_k given to a retriever called alone
MaxReplyRows == 2      \* rows of one traversal reply to the graph retriever
NumRequests == 3      \* requests that share the service singletons
MaxLoadFailures == 2  \* failed constructions of the embedding model
MaxCalls == 4         \* calls of Neo4jClient methods in one run

\* ------------------------------------------------- configuration constants
RRF_K == 60
MAX_CONTEXT_TOKENS == 4000
MAX_RETRIEVE_RESULTS == 20
TOP_K_PERICOPES == 5

\* --------------------------------------------------------------- corpus
\* Passage ids (the scenario names of the specification) and the retriever
\* names the orchestrator uses, in its invocation order.
Ids == {"A", "B", "C"}
SourceNames == <<"dense", "sparse", "graph">>

\* The attributes of a passage as the corpus store holds them; the three
\* passages exercise the three shapes of a reference.
Corpus ==
  [id \in Ids |->
     CASE id = "A" -> [book_id |-> 1, book_name |-> "Gn", title |-> "T",
                       chapter_start |-> 1, verse_start |-> 1,
                       chapter_end |-> 1, verse_end |-> 1]
       [] id = "B" -> [book_id |-> 1, book_name |-> "Gn", title |-> "U",
                       chapter_start |-> 2, verse_start |-> 1,
                       chapter_end |-> 2, verse_end |-> 3]
       [] OTHER    -> [book_id |-> 2, book_name |-> "Ex", title |-> "V",
                       chapter_start |-> 3, verse_start |-> 4,
                       chapter_end |-> 4, verse_end |-> 2]]

\* A retrieval candidate (RetrievalResult, SparseRetrievalResult and
\* GraphRetrievalResult share these attributes).
Candidate(id, text, score) ==
  [id |-> id,
   book_id |-> Corpus[id].book_id,
   book_name |-> Corpus[id].book_name,
   chapter_start |-> Corpus[id].chapter_start,
   verse_start |-> Corpus[id].verse_start,
   chapter_end |-> Corpus[id].chapter_end,
   verse_end |-> Corpus[id].verse_end,
   title |-> Corpus[id].title,
   text |-> text,
   score |-> score]

Max(a, b) == IF a >= b THEN a ELSE b
Min(a, b) == IF a <= b THEN a ELSE b

RECURSIVE SumSeq(_)
SumSeq(s) == IF s = <<>> THEN 0 ELSE Head(s) + SumSeq(Tail(s))

RECURSIVE SumSet(_, _)
\* Sum of f[x] over the finite set S.
SumSet(S, f) ==
  IF S = {} THEN 0
  ELSE LET x == CHOOSE y \in S : TRUE IN f[x] + SumSet(S \ {x}, f)

\* ====================================================================
\* RRFFusion (services/fusion.py)
\* ====================================================================

\* RRFFusion.__init__: self.k = k or settings.RRF_K (None and 0 are falsy).
FusionK(k) == IF k = 0 THEN RRF_K ELSE k

MaxRank == Max(MaxLen, Max(MaxRetrieve, MaxGraphRows))

RECURSIVE RankProduct(_, _)
RankProduct(k, r) == IF r = 0 THEN 1 ELSE (k + r) * RankProduct(k, r - 1)

\* The unit of the score representation: a score s stands for s / Scale(k).
Scale(k) == RankProduct(k, MaxRank)

\* rrf_score = 1.0 / (self.k + rank), in 1/Scale(k) units.
RRFTermZeroIndexed(k, rank) == Scale(k) \div (k + rank - 1)

RRFTerm(k, rank) == Scale(k) \div (k + rank)

\* The three dictionaries of fuse before the first candidate.  keys is the
\* insertion order of doc_scores, which dict.items() follows.
EmptyAcc ==
  [keys |-> <<>>, doc_scores |-> <<>>, doc_data |-> <<>>, doc_sources |-> <<>>]

InSeq(x, s) == \E i \in DOMAIN s : s[i] = x

\* Body of the inner loop of fuse for one candidate: lines 61-73.
FuseStepWeighted(acc, k, source_name, rank, result) ==
  LET doc_id == result.id
      seen == doc_id \in DOMAIN acc.doc_scores
      rrf_score == RRFTerm(k, rank) * (1 + result.score)
  IN [keys |-> IF seen THEN acc.keys ELSE Append(acc.keys, doc_id),
      doc_scores |->
        IF seen THEN [acc.doc_scores EXCEPT ![doc_id] = @ + rrf_score]
        ELSE acc.doc_scores @@ (doc_id :> (0 + rrf_score)),
      doc_data |->
        IF seen THEN acc.doc_data ELSE acc.doc_data @@ (doc_id :> result),
      doc_sources |->
        IF seen
        THEN [acc.doc_sources EXCEPT
                ![doc_id] = IF InSeq(source_name, @) THEN @
                            ELSE Append(@, source_name)]
        ELSE acc.doc_sources @@ (doc_id :> <<source_name>>)]

FuseStepKeepBest(acc, k, source_name, rank, result) ==
  LET doc_id == result.id
      seen == doc_id \in DOMAIN acc.doc_scores
      rrf_score == RRFTerm(k, rank)
  IN [keys |-> IF seen THEN acc.keys ELSE Append(acc.keys, doc_id),
      doc_scores |->
        IF seen THEN [acc.doc_scores EXCEPT ![doc_id] = Max(@, rrf_score)]
        ELSE acc.doc_scores @@ (doc_id :> (0 + rrf_score)),
      doc_data |->
        IF seen THEN acc.doc_data ELSE acc.doc_data @@ (doc_id :> result),
      doc_sources |->
        IF seen
        THEN [acc.doc_sources EXCEPT
                ![doc_id] = IF InSeq(source_name, @) THEN @
                            ELSE Append(@, source_name)]
        ELSE acc.doc_sources @@ (doc_id :> <<source_name>>)]

FuseStepLastPayload(acc, k, source_name, rank, result) ==
  LET doc_id == result.id
      seen == doc_id \in DOMAIN acc.doc_scores
      rrf_score == RRFTerm(k, rank)
  IN [keys |-> IF seen THEN acc.keys ELSE Append(acc.keys, doc_id),
      doc_scores |->
        IF seen THEN [acc.doc_scores EXCEPT ![doc_id] = @ + rrf_score]
        ELSE acc.doc_scores @@ (doc_id :> (0 + rrf_score)),
      doc_data |->
        IF seen THEN [acc.doc_data EXCEPT ![doc_id] = result]
        ELSE acc.doc_data @@ (doc_id :> result),
      doc_sources |->
        IF seen
        THEN [acc.doc_sources EXCEPT
                ![doc_id] = IF InSeq(source_name, @) THEN @
                            ELSE Append(@, source_name)]
        ELSE acc.doc_sources @@ (doc_id :> <<source_name>>)]

FuseStep(acc, k, source_name, rank, result) ==
  LET doc_id == result.id
      seen == doc_id \in DOMAIN acc.doc_scores
      rrf_score == RRFTerm(k, rank)
  IN [keys |-> IF seen THEN acc.keys ELSE Append(acc.keys, doc_id),
      doc_scores |->
        IF seen THEN [acc.doc_scores EXCEPT ![doc_id] = @ + rrf_score]
        ELSE acc.doc_scores @@ (doc_id :> (0 + rrf_score)),
      doc_data |->
        IF seen THEN acc.doc_data ELSE acc.doc_data @@ (doc_id :> result),
      doc_sources |->
        IF seen
        THEN [acc.doc_sources EXCEPT
                ![doc_id] = IF InSeq(source_name, @) THEN @
                            ELSE Append(@, source_name)]
        ELSE acc.doc_sources @@ (doc_id :> <<source_name>>)]

RECURSIVE FuseList(_, _, _, _, _)
\* for rank, result in enumerate(results, start=1), from rank on.
FuseList(acc, k, source_name, results, rank) ==
  IF rank > Len(results) THEN acc
  ELSE FuseList(FuseStep(acc, k, source_name, rank, results[rank]),
                k, source_name, results, rank + 1)

RECURSIVE FuseLists(_, _, _, _)
\* for source_name, results in result_lists, from the i-th pair on.
FuseLists(acc, k, result_lists, i) ==
  IF i > Len(result_lists) THEN acc
  ELSE FuseLists(FuseList(acc, k, result_lists[i].name,
                          result_lists[i].results, 1),
                 k, result_lists, i + 1)

RECURSIVE InsertTiesReversed(_, _)
InsertTiesReversed(sorted, item) ==
  IF sorted = <<>> THEN <<item>>
  ELSE IF Head(sorted).score > item.score
       THEN <<Head(sorted)>> \o InsertTiesReversed(Tail(sorted), item)
       ELSE <<item>> \o sorted

RECURSIVE InsertAscending(_, _)
InsertAscending(sorted, item) ==
  IF sorted = <<>> THEN <<item>>
  ELSE IF Head(sorted).score <= item.score
       THEN <<Head(sorted)>> \o InsertAscending(Tail(sorted), item)
       ELSE <<item>> \o sorted

RECURSIVE InsertDescending(_, _)
\* One insertion of a stable sort by score, largest first: the item goes
\* behind every item that is not smaller (sorted(..., reverse=True) keeps
\* items of equal key in their original order).
InsertDescending(sorted, item) ==
  IF sorted = <<>> THEN <<item>>
  ELSE IF Head(sorted).score >= item.score
       THEN <<Head(sorted)>> \o InsertDescending(Tail(sorted), item)
       ELSE <<item>> \o sorted

RECURSIVE SortedItems(_, _)
\* sorted(doc_scores.items(), key=lambda x: x[1], reverse=True) over the
\* first n items of the dictionary.
SortedItems(acc, n) ==
  IF n = 0 THEN <<>>
  ELSE InsertDescending(SortedItems(acc, n - 1),
                        [id |-> acc.keys[n],
                         score |-> acc.doc_scores[acc.keys[n]]])

\* FusedResult(id=doc_id, ..., score=rrf_score, sources=doc_sources[doc_id]).
FusedResult(acc, item) ==
  LET data == acc.doc_data[item.id]
  IN [id |-> item.id,
      book_id |-> data.book_id,
      book_name |-> data.book_name,
      chapter_start |-> data.chapter_start,
      verse_start |-> data.verse_start,
      chapter_end |-> data.chapter_end,
      verse_end |-> data.verse_end,
      title |-> data.title,
      text |-> data.text,
      score |-> item.score,
      sources |-> acc.doc_sources[item.id]]

\* RRFFusion.fuse with self.k = k.
Fuse(k, result_lists) ==
  LET acc == FuseLists(EmptyAcc, k, result_lists, 1)
      items == SortedItems(acc, Len(acc.keys))
  IN [j \in DOMAIN items |-> FusedResult(acc, items[j])]

\* ====================================================================
\* ContextBuilder (services/context_builder.py)
\* ====================================================================

\* ContextBuilder.__init__: self.max_tokens = max_tokens or the setting.
BuilderMaxTokens(max_tokens) ==
  IF max_tokens = 0 THEN MAX_CONTEXT_TOKENS ELSE max_tokens

\* max_chars = int(self.max_tokens * self.chars_per_token), 1.5 chars a token.
MaxChars(max_tokens) == (max_tokens * 3) \div 2

\* The string build_with_metadata returns for an empty result list (nine
\* characters in the source).
NO_VERSES_TEXT == "(no hits)"

\* "\n\n---\n\n".join
DELIMITER == "\n\n---\n\n"

\* ContextBuilder._format_reference
FormatReference(result) ==
  IF result.chapter_start = result.chapter_end
  THEN IF result.verse_start = result.verse_end
       THEN result.book_name \o " " \o ToString(result.chapter_start)
            \o ":" \o ToString(result.verse_start)
       ELSE result.book_name \o " " \o ToString(result.chapter_start)
            \o ":" \o ToString(result.verse_start)
            \o "-" \o ToString(result.verse_end)
  ELSE result.book_name \o " " \o ToString(result.chapter_start)
       \o ":" \o ToString(result.verse_start)
       \o "-" \o ToString(result.chapter_end)
       \o ":" \o ToString(result.verse_end)

\* ContextBuilder._format_pericope: four lines joined by "\n", the third empty.
FormatPericope(result) ==
  ("### " \o result.title) \o "\n"
  \o ("**" \o FormatReference(result) \o "**") \o "\n"
  \o "" \o "\n"
  \o result.text

RECURSIVE Join(_, _)
Join(parts, sep) ==
  IF parts = <<>> THEN ""
  ELSE IF Len(parts) = 1 THEN parts[1]
       ELSE parts[1] \o sep \o Join(Tail(parts), sep)

Metadata(result) ==
  [id |-> result.id,
   book |-> result.book_name,
   reference |-> FormatReference(result),
   title |-> result.title,
   score |-> result.score,
   sources |-> result.sources]

\* The break test of the loop: the part does not fit and something is in.
DoesNotFitStrict(st, part_length, max_chars) ==
  st.total_chars + part_length > max_chars

DoesNotFit(st, part_length, max_chars) ==
  st.total_chars + part_length > max_chars /\ st.context_parts # <<>>

RECURSIVE IncludeLoop(_, _, _, _)
\* The for loop of build_with_metadata from the i-th result on;
\* st = [context_parts, metadata, total_chars].
IncludeLoop(st, max_chars, results, i) ==
  IF i > Len(results) THEN st
  ELSE LET pericope_text == FormatPericope(results[i])
           part_length == Len(pericope_text)
       IN IF DoesNotFit(st, part_length, max_chars) THEN st
          ELSE IncludeLoop(
                 [context_parts |-> Append(st.context_parts, pericope_text),
                  metadata |-> Append(st.metadata, Metadata(results[i])),
                  total_chars |-> st.total_chars + part_length],
                 max_chars, results, i + 1)

\* ContextBuilder(max_tokens).build_with_metadata(results)
BuildWithMetadata(max_tokens, results) ==
  IF results = <<>> THEN [context |-> NO_VERSES_TEXT, metadata |-> <<>>]
  ELSE LET st == IncludeLoop(
                   [context_parts |-> <<>>, metadata |-> <<>>, total_chars |-> 0],
                   MaxChars(max_tokens), results, 1)
       IN [context |-> Join(st.context_parts, DELIMITER),
           metadata |-> st.metadata]

\* ====================================================================
\* OllamaLLMClient.classify_query (services/llm_client.py)
\* ====================================================================
\* A text is a sequence of tokens; " " is white space, every other token a
\* word no tag straddles.  str.upper() acts on every token.
Upper(token) ==
  CASE token = "auto" -> "AUTO"
    [] token = "verse" -> "VERSE"
    [] token = "topic" -> "TOPIC"
    [] token = "person" -> "PERSON"
    [] token = "event" -> "EVENT"
    [] token = "verse_lookup" -> "VERSE_LOOKUP"
    [] token = "Topic_Question" -> "TOPIC_QUESTION"
    [] token = "person_question" -> "PERSON_QUESTION"
    [] token = "Event_question" -> "EVENT_QUESTION"
    [] token = "general_bible_question" -> "GENERAL_BIBLE_QUESTION"
    [] token = "unsure" -> "UNSURE"
    [] OTHER -> token

UpperText(text) == [i \in DOMAIN text |-> Upper(text[i])]

RECURSIVE LStrip(_)
LStrip(text) ==
  IF text # <<>> /\ Head(text) = " " THEN LStrip(Tail(text)) ELSE text

RECURSIVE RStrip(_)
RStrip(text) ==
  IF text # <<>> /\ text[Len(text)] = " "
  THEN RStrip(SubSeq(text, 1, Len(text) - 1)) ELSE text

\* str.strip()
Strip(text) == RStrip(LStrip(text))

\* valid_types, in the order classify_query tries them.
VALID_TYPES ==
  <<"VERSE_LOOKUP", "TOPIC_QUESTION", "PERSON_QUESTION", "EVENT_QUESTION",
    "GENERAL_BIBLE_QUESTION">>

RECURSIVE FirstContained(_, _, _)
\* for query_type in valid_types: if query_type in response: return it
FirstContained(valid_types, response, i) ==
  IF i > Len(valid_types) THEN "GENERAL_BIBLE_QUESTION"
  ELSE IF InSeq(valid_types[i], response) THEN valid_types[i]
       ELSE FirstContained(valid_types, response, i + 1)

\* The parsing part of classify_query, applied to the reply of the LLM.
ParseClassification(reply) ==
  FirstContained(VALID_TYPES, UpperText(Strip(reply)), 1)

\* Step 1 of RAGPipeline.execute: the tag of a request with an explicit mode.
ExplicitModeTagMapped(mode) ==
  CASE mode = "verse" -> "VERSE_LOOKUP"
    [] mode = "topic" -> "TOPIC_QUESTION"
    [] mode = "person" -> "PERSON_QUESTION"
    [] mode = "event" -> "EVENT_QUESTION"
    [] OTHER -> "GENERAL_BIBLE_QUESTION"

ExplicitModeTag(mode) == Upper(mode)

\* ====================================================================
\* Retrievers (services/retrievers)
\* ====================================================================
\* Passages the stores of the pipeline runs hold, and their texts: all the
\* verses of the passage in the relational store, the first five in the graph.
StoreIds == {"A", "B"}
FullText == [id \in Ids |-> IF id = "A" THEN "abcdefg" ELSE "hij"]
GraphText == [id \in Ids |-> IF id = "A" THEN "abcde" ELSE "hij"]

RECURSIVE DistinctSeqs(_, _)
\* The duplicate-free sequences over S of length at most n.
DistinctSeqs(S, n) ==
  IF n = 0 THEN {<<>>}
  ELSE LET shorter == DistinctSeqs(S, n - 1)
       IN shorter \cup
          {Append(pr[1], pr[2]) :
             pr \in {qx \in shorter \X S :
                       Len(qx[1]) = n - 1 /\ ~InSeq(qx[2], qx[1])}}

Prefix(seq, n) == SubSeq(seq, 1, Min(Len(seq), n))

RECURSIVE SortDescending(_, _)
\* list.sort(key=score, reverse=True) / sorted(..., reverse=True) of the
\* first n elements: stable.
SortDescending(seq, n) ==
  IF n = 0 THEN <<>> ELSE InsertDescending(SortDescending(seq, n - 1), seq[n])

\* DenseRetriever.retrieve once the rows of the distance query are there:
\* rows are [id, distance], nearest first; scores are tenths.
DenseResults(rows) ==
  [r \in DOMAIN rows |->
     Candidate(rows[r].id, FullText[rows[r].id], 10 - rows[r].distance)]

\* normalized_score = min(1.0, raw_rank / 0.5) if raw_rank > 0 else 0.0
NormalizedScore(raw_rank) == IF raw_rank > 0 THEN Min(10, raw_rank * 2) ELSE 0

\* SparseRetriever.retrieve once the verse query returned verse_rows
\* ([pericope_id, rank], best rank first, one row a passage) and the passage
\* query returned the passages pericopes, in the order the store chose.
SparseResults(verse_rows, pericopes, top_k) ==
  IF verse_rows = <<>> THEN <<>>
  ELSE LET rank_of(id) ==
             LET n == CHOOSE m \in DOMAIN verse_rows : verse_rows[m].pericope_id = id
             IN verse_rows[n].rank
           results ==
             [r \in DOMAIN pericopes |->
                Candidate(pericopes[r], FullText[pericopes[r]],
                          NormalizedScore(rank_of(pericopes[r])))]
       IN Prefix(SortDescending(results, Len(results)), top_k)

\* pericope_ids = list(pericope_ranks.keys())[:top_k]
SparsePericopeIds(verse_rows, top_k) ==
  Prefix([r \in DOMAIN verse_rows |-> verse_rows[r].pericope_id], top_k)

\* ====================================================================
\* Neo4jClient (core/neo4j_client.py) and GraphRetriever
\* ====================================================================
\* Neo4jClient.is_available: cls._initialized and cls._driver is not None.
IsAvailableAlways(initialized, driver) == TRUE

IsAvailable(initialized, driver) == initialized /\ driver

\* Neo4jClient.execute_read, lines 99-105: the session and the query run
\* inside try / except Exception, so no failure of theirs leaves the call.
ReadEscapes(available, reply) == FALSE

\* Neo4jClient.execute_read: empty when the client is unavailable or the
\* query fails, else the rows of the reply.
ExecuteReadWhenDown(available, reply) ==
  IF reply.failed THEN <<>> ELSE reply.rows

ExecuteRead(available, reply) ==
  IF ~available THEN <<>>
  ELSE IF reply.failed THEN <<>> ELSE reply.rows

\* GraphRetriever._calculate_score: min(1.0, weight / 10.0), in tenths.
CalculateScore(weight) == Min(10, weight)

\* The list comprehension closing _retrieve_by_person / _by_topic / _by_event.
GraphResults(rows, type) ==
  [r \in DOMAIN rows |->
     [id |-> rows[r].id,
      book_id |-> Corpus[rows[r].id].book_id,
      book_name |-> Corpus[rows[r].id].book_name,
      chapter_start |-> Corpus[rows[r].id].chapter_start,
      verse_start |-> Corpus[rows[r].id].verse_start,
      chapter_end |-> Corpus[rows[r].id].chapter_end,
      verse_end |-> Corpus[rows[r].id].verse_end,
      title |-> Corpus[rows[r].id].title,
      text |-> GraphText[rows[r].id],
      score |-> CalculateScore(rows[r].weight),
      graph_context |-> [type |-> type, entities |-> rows[r].names]]]

RECURSIVE DedupById(_, _, _)
\* The seen_ids loop of _retrieve_general from the i-th element on.
DedupById(seq, i, seen_ids) ==
  IF i > Len(seq) THEN <<>>
  ELSE IF seq[i].id \in seen_ids THEN DedupById(seq, i + 1, seen_ids)
       ELSE <<seq[i]>> \o DedupById(seq, i + 1, seen_ids \cup {seq[i].id})

\* k_per_type = max(top_k // 3, 5)
KPerType(top_k) == Max(top_k \div 3, 5)

\* GraphRetriever._retrieve_general once the three scoped results are there.
RetrieveGeneralUnsorted(person_results, topic_results, event_results, top_k) ==
  Prefix(DedupById(person_results \o topic_results \o event_results, 1, {}),
         top_k)

RetrieveGeneral(person_results, topic_results, event_results, top_k) ==
  LET all_results == person_results \o topic_results \o event_results
  IN Prefix(DedupById(SortDescending(all_results, Len(all_results)), 1, {}),
            top_k)

\* The traversal strategy GraphRetriever.retrieve picks for a tag.
Strategy(query_type) ==
  CASE query_type = "PERSON_QUESTION" -> "person"
    [] query_type = "TOPIC_QUESTION" -> "topic"
    [] query_type = "EVENT_QUESTION" -> "event"
    [] OTHER -> "general"

StripWord(w) == IF w = " " THEN "" ELSE w

\* _extract_entities_from_query on a reply given as its comma-separated parts.
ParseEntities(parts) ==
  SelectSeq([i \in DOMAIN parts |-> StripWord(parts[i])], LAMBDA e : e # "")

\* ====================================================================
\* RAGPipeline (services/rag_pipeline.py)
\* ====================================================================
APOLOGY == "(apology)"
NONE == "None"
QUERY == "query"
EXCERPT_CHARS == 200
GRAPH_CONTEXT_CAP == 10

\* if results: used_retrievers.append(name)
UsedAfterAlways(used, name, results) == Append(used, name)

UsedAfter(used, name, results) ==
  IF results # <<>> THEN Append(used, name) ELSE used

\* The gate in front of graph retrieval (execute line 104, retrieve line 63):
\* self.graph_retriever is set, the option asks for it, the client is up.
GraphGate(use_graph, include_graph, available) ==
  use_graph /\ include_graph /\ available

\* Step 3 of execute: the (name, results) pairs of the non-empty sources.
ResultListsKeepEmpty(dense_results, sparse_results, graph_results) ==
  <<[name |-> "dense", results |-> dense_results],
    [name |-> "sparse", results |-> sparse_results],
    [name |-> "graph", results |-> graph_results]>>

ResultLists(dense_results, sparse_results, graph_results) ==
  (IF dense_results # <<>>
   THEN <<[name |-> "dense", results |-> dense_results]>> ELSE <<>>)
  \o (IF sparse_results # <<>>
      THEN <<[name |-> "sparse", results |-> sparse_results]>> ELSE <<>>)
  \o (IF graph_results # <<>>
      THEN <<[name |-> "graph", results |-> graph_results]>> ELSE <<>>)

\* fused_results = self.fusion.fuse(result_lists) if result_lists else [],
\* then fused_results[:max_results]; self.fusion is RRFFusion().
TruncatedThenFused(result_lists, max_results) ==
  IF result_lists # <<>>
  THEN Fuse(FusionK(0),
            [i \in DOMAIN result_lists |->
               [name |-> result_lists[i].name,
                results |-> Prefix(result_lists[i].results, max_results)]])
  ELSE <<>>

FusedAndTruncated(result_lists, max_results) ==
  Prefix(IF result_lists # <<>> THEN Fuse(FusionK(0), result_lists) ELSE <<>>,
         max_results)

\* text_excerpt: the texts of the corpus are shorter than EXCERPT_CHARS, a
\* longer one is cut to that many characters and marked.
Excerpt(text) ==
  IF Len(text) > EXCERPT_CHARS
  THEN [first |-> EXCERPT_CHARS, of |-> text, then |-> "..."] ELSE text

\* PericopeSegment(...) for result in fused_results; relevance_score is
\* min(1.0, score * 10), in 1/Scale units.
Segments(fused_results) ==
  [j \in DOMAIN fused_results |->
     [id |-> fused_results[j].id,
      type |-> "pericope",
      book |-> fused_results[j].book_name,
      chapter_start |-> fused_results[j].chapter_start,
      verse_start |-> fused_results[j].verse_start,
      chapter_end |-> fused_results[j].chapter_end,
      verse_end |-> fused_results[j].verse_end,
      title |-> fused_results[j].title,
      text_excerpt |-> Excerpt(fused_results[j].text),
      relevance_score |-> Min(Scale(FusionK(0)), fused_results[j].score * 10)]]

\* The keyword arguments of the generate_answer call of step 5.
GenerateArgsNoContext(query, context_string, tag) ==
  [query |-> query, context |-> "", query_type |-> tag]

GenerateArgs(query, context_string, tag) ==
  [query |-> query, context |-> context_string, query_type |-> tag]

\* What the answer-generation LLM returns for a prompt: a function of the
\* prompt's (query_type, query, context).
Generated(query, context, query_type) ==
  [generated_from |-> <<query_type, query, context>>]

\* The names of the results of one graph-context type.
EntitiesOfTypeAny(results, type) ==
  UNION {{results[r].graph_context.entities[e] :
            e \in DOMAIN results[r].graph_context.entities} :
         r \in DOMAIN results}

EntitiesOfType(results, type) ==
  UNION {{results[r].graph_context.entities[e] :
            e \in DOMAIN results[r].graph_context.entities} :
         r \in {q \in DOMAIN results : results[q].graph_context.type = type}}

\* list(names)[:10]: the set in any order, cut to the cap.
CappedLists(names) ==
  {Prefix(q, GRAPH_CONTEXT_CAP) :
     q \in {t \in DistinctSeqs(names, Cardinality(names)) :
              Len(t) = Cardinality(names)}}

\* RAGPipeline._build_graph_context: every value it can return.
BuildGraphContext(results) ==
  {[topics |-> t, persons |-> ps] :
     t \in CappedLists(EntitiesOfType(results, "topic")),
     ps \in CappedLists(EntitiesOfType(results, "person"))}

EMPTY_GRAPH_CONTEXT == [topics |-> <<>>, persons |-> <<>>]

\* if graph_context_data and (topics or persons)
HasGraphContext(graph_context_data) ==
  graph_context_data.topics # <<>> \/ graph_context_data.persons # <<>>

\* graph_context of the response.
GraphContextField(graph_context_data) ==
  IF HasGraphContext(graph_context_data)
  THEN [related_topics |-> graph_context_data.topics,
        related_persons |-> graph_context_data.persons]
  ELSE NONE

\* QueryResponse(...); elapsed time and model name are left out.
Response(answer, fused_results, query_type, used_retrievers, graph_context_data) ==
  [answer |-> answer,
   segments |-> Segments(fused_results),
   meta |-> [query_type |-> query_type, used_retrievers |-> used_retrievers],
   graph_context |-> GraphContextField(graph_context_data)]

\* ====================================================================
\* Service singletons (services/embedding_service.py, llm_client.py)
\* ====================================================================
\* EmbeddingService.__init__ and OllamaLLMClient.__init__
NewEmbeddingService == [model |-> FALSE, initialized |-> FALSE]
NewLLMClient == [client |-> TRUE]

\* EmbeddingService.initialize: nothing when already initialized; else the
\* model is constructed and the flag set, or the construction raises and the
\* object stays as it was.
Initialize(service, load_ok) ==
  IF service.initialized
  THEN [service |-> service, raised |-> FALSE, constructed |-> 0]
  ELSE IF load_ok
       THEN [service |-> [model |-> TRUE, initialized |-> TRUE],
             raised |-> FALSE, constructed |-> 1]
       ELSE [service |-> service, raised |-> TRUE, constructed |-> 0]

\* `if _embedding_service is None`, `if _llm_client is None`
IsNoneAlways(instance) == TRUE

IsNone(instance) == instance = 0

\* ====================================================================
\* State
\* ====================================================================
VARIABLES
  fz_k,        \* the k argument of RRFFusion(k); 0 stands for None
  fz_lists,    \* result_lists handed to fuse
  fz_out,      \* what fuse returned
  fz_pc        \* "build" while the caller assembles result_lists, then "done"

fuseVars == <<fz_k, fz_lists, fz_out, fz_pc>>

VARIABLES
  cb_arg,      \* the max_tokens argument of ContextBuilder; 0 stands for None
  cb_results,  \* the results handed to build_with_metadata
  cb_out,      \* [context, metadata] it returned
  cb_pc        \* "build" while the caller assembles results, then "done"

ctxVars == <<cb_arg, cb_results, cb_out, cb_pc>>

VARIABLES
  gc_results,  \* the results graph_retriever.retrieve returned
  gc_used,     \* used_retrievers after the graph step
  gc_present,  \* the condition of line 170: a GraphContext is built
  gc_field,    \* graph_context of the response
  gc_pc        \* "build" while the results are assembled, then "done"

gcVars == <<gc_results, gc_used, gc_present, gc_field, gc_pc>>

VARIABLES
  embedding_service,  \* the module global _embedding_service: 0 is None,
                      \* else the place of the object in embedding_objects
  embedding_objects,  \* every EmbeddingService constructed so far
  llm_client,         \* the module global _llm_client, likewise
  llm_objects,        \* every OllamaLLMClient constructed so far
  model_loads,        \* how often BGEM3FlagModel was constructed
  load_failures,      \* how often its construction raised
  svc_req             \* the requests: position and the handles received

svcVars ==
  <<embedding_service, embedding_objects, llm_client, llm_objects,
    model_loads, load_failures, svc_req>>

VARIABLES
  sp_top_k,           \* SparseRetriever.retrieve: the top_k argument
  sp_rows,            \* the rows the verse query returns
  sp_out,             \* the list retrieve returned
  sp_pc

spVars == <<sp_top_k, sp_rows, sp_out, sp_pc>>

VARIABLES
  gr_query_type,      \* GraphRetriever.retrieve: the tag it is called with
  gr_top_k,           \* and its top_k
  gr_up,              \* Neo4jClient.is_available() at this moment
  gr_parts,           \* the results of the scoped traversals made so far
  gr_reads,           \* how each execute_read call ended
  gr_out,             \* graph_results of the pipeline
  gr_used,            \* used_retrievers of the pipeline
  gr_pc

grVars ==
  <<gr_query_type, gr_top_k, gr_up, gr_parts, gr_reads, gr_out, gr_used,
    gr_pc>>

VARIABLES
  sr_fused,           \* RAGPipeline.execute: what fuse returned
  sr_max_results,     \* max_results of the request
  sr_segments,        \* the segments of the QueryResponse
  sr_metadata,        \* the metadata build_with_metadata returned
  sr_pc

srVars == <<sr_fused, sr_max_results, sr_segments, sr_metadata, sr_pc>>

VARIABLES
  nj_driver,          \* Neo4jClient._driver: 0 is None, else the place of
                      \* the driver in nj_drivers
  nj_initialized,     \* Neo4jClient._initialized
  nj_drivers,         \* every driver AsyncGraphDatabase.driver() returned
  nj_calls,           \* the calls made so far: operation, position, locals
  nj_last             \* how the lifecycle call that ended last ended

njVars == <<nj_driver, nj_initialized, nj_drivers, nj_calls, nj_last>>

tailVars == <<srVars, njVars>>

moreVars == <<svcVars, spVars, grVars, tailVars>>

VARIABLES
  pc,                 \* where execute_query / RAGPipeline.execute stands
  req,                \* the validated QueryRequest: mode, max_results, include_graph
                      \* (options_given: the body carried the options)
  query_type,
  llm_reply,          \* the reply classify_query has just parsed
  used_retrievers,
  dense_results, sparse_results, graph_results,
  graph_context_data,
  fused_results,      \* after truncation
  context, metadata,  \* what build_with_metadata returned
  answer,
  response,           \* the QueryResponse, NONE until it is built
  http_status,        \* 0 while the request runs, then 200 or 500
  db_tx,              \* the transaction of the request's AsyncSession
  neo_driver,         \* Neo4jClient._driver is not None
  neo_initialized,    \* Neo4jClient._initialized
  calls,              \* calls made so far, by kind
  env,                \* what the backends held and did during the request
  sent                \* the tags and context handed to collaborators

pipeVars ==
  <<pc, req, query_type, llm_reply, used_retrievers, dense_results,
    sparse_results, graph_results, graph_context_data, fused_results,
    context, metadata, answer, response, http_status, db_tx, neo_driver,
    neo_initialized, calls, env, sent>>

vars == <<fuseVars, ctxVars, gcVars, moreVars, pipeVars>>

\* The harness variables of a specification that does not use them.
FuseIdle ==
  fz_k = 0 /\ fz_lists = <<>> /\ fz_out = <<>> /\ fz_pc = "idle"

CtxIdle ==
  /\ cb_arg = 0 /\ cb_results = <<>>
  /\ cb_out = [context |-> "", metadata |-> <<>>] /\ cb_pc = "idle"

GcIdle ==
  /\ gc_results = <<>> /\ gc_used = <<>> /\ gc_present = FALSE
  /\ gc_field = NONE /\ gc_pc = "idle"

SvcIdle ==
  /\ embedding_service = 0 /\ embedding_objects = <<>>
  /\ llm_client = 0 /\ llm_objects = <<>>
  /\ model_loads = 0 /\ load_failures = 0 /\ svc_req = <<>>

SpIdle ==
  sp_top_k = 0 /\ sp_rows = <<>> /\ sp_out = <<>> /\ sp_pc = "idle"

GrIdle ==
  /\ gr_query_type = "" /\ gr_top_k = 0 /\ gr_up = FALSE
  /\ gr_parts = <<>> /\ gr_reads = <<>> /\ gr_out = <<>> /\ gr_used = <<>>
  /\ gr_pc = "idle"

SrIdle ==
  /\ sr_fused = <<>> /\ sr_max_results = 0
  /\ sr_segments = <<>> /\ sr_metadata = <<>> /\ sr_pc = "idle"

NjIdle ==
  /\ nj_driver = 0 /\ nj_initialized = FALSE /\ nj_drivers = <<>>
  /\ nj_calls = <<>> /\ nj_last = "none"

TailIdle == SrIdle /\ NjIdle

MoreIdle == SvcIdle /\ SpIdle /\ GrIdle /\ TailIdle

NoCalls ==
  [classify |-> 0, dense |-> 0, sparse |-> 0, graph |-> 0, extract |-> 0,
   traverse |-> 0, fuse |-> 0, build |-> 0, generate |-> 0]

NoEnv ==
  [dense_raised |-> FALSE, dense_expected |-> <<>>,
   sparse_raised |-> FALSE, sparse_fault |-> "none", sparse_expected |-> <<>>,
   graph_raised |-> FALSE, neo_was_up |-> FALSE, failed_at |-> "none"]

NoSent == [graph_tag |-> NONE, fusion |-> <<>>, generate |-> NONE]

\* The per-request variables before the first step of a request.
RequestStart ==
  /\ query_type = NONE /\ llm_reply = NONE
  /\ used_retrievers = <<>>
  /\ dense_results = <<>> /\ sparse_results = <<>> /\ graph_results = <<>>
  /\ graph_context_data = EMPTY_GRAPH_CONTEXT
  /\ fused_results = <<>> /\ context = "" /\ metadata = <<>>
  /\ answer = NONE /\ response = NONE /\ http_status = 0
  /\ calls = NoCalls /\ sent = NoSent

PipeIdle ==
  /\ pc = "idle"
  /\ req = [mode |-> "auto", options_given |-> TRUE, max_results |-> 1,
            include_graph |-> FALSE]
  /\ RequestStart
  /\ db_tx = "closed" /\ neo_driver = FALSE /\ neo_initialized = FALSE
  /\ env = NoEnv

\* ====================================================================
\* SpecFuse: fuse applied to every bounded input
\* ====================================================================

\* The source-local score a retriever attaches at a rank: best first.
LocalScore(rank) == MaxRank + 1 - rank

\* The text a source gives the candidate at a rank: every occurrence of the
\* input carries a text of its own.
PayloadText(source_name, rank) == source_name \o ToString(rank)

TotalLen(lists) == SumSeq([i \in DOMAIN lists |-> Len(lists[i].results)])

KArgs == {0, 1}

InitFuse ==
  /\ CtxIdle
  /\ GcIdle
  /\ PipeIdle
  /\ MoreIdle
  /\ fz_k \in KArgs
  /\ fz_lists = <<>>
  /\ fz_out = <<>>
  /\ fz_pc = "build"

\* The caller opens a further (source_name, results) pair.
FzAddSource ==
  /\ fz_pc = "build"
  /\ Len(fz_lists) < Len(SourceNames)
  /\ \E n \in DOMAIN SourceNames :
        /\ \A i \in DOMAIN fz_lists :
              \E m \in 1..(n - 1) : SourceNames[m] = fz_lists[i].name
        /\ fz_lists' = Append(fz_lists, [name |-> SourceNames[n], results |-> <<>>])
  /\ UNCHANGED <<fz_k, fz_out, fz_pc, ctxVars, gcVars, moreVars, pipeVars>>

\* The caller appends a candidate to the last list.
FzAddCandidate ==
  /\ fz_pc = "build"
  /\ fz_lists # <<>>
  /\ TotalLen(fz_lists) < MaxTotal
  /\ LET n == Len(fz_lists)
         rank == Len(fz_lists[n].results) + 1
     IN /\ rank <= MaxLen
        /\ \E id \in Ids :
              fz_lists' =
                [fz_lists EXCEPT
                   ![n].results =
                      Append(@, Candidate(id, PayloadText(fz_lists[n].name, rank),
                                          LocalScore(rank)))]
  /\ UNCHANGED <<fz_k, fz_out, fz_pc, ctxVars, gcVars, moreVars, pipeVars>>

FzFuse ==
  /\ fz_pc = "build"
  /\ fz_out' = Fuse(FusionK(fz_k), fz_lists)
  /\ fz_pc' = "done"
  /\ UNCHANGED <<fz_k, fz_lists, ctxVars, gcVars, moreVars, pipeVars>>

NextFuse == FzAddSource \/ FzAddCandidate \/ FzFuse

SpecFuse == InitFuse /\ [][NextFuse]_vars

\* ====================================================================
\* SpecContext: build_with_metadata applied to every bounded input
\* ====================================================================
Texts == {"x", "xx", "xxxxx"}

\* A fused result as the context builder receives it.
Segment(id, text) ==
  [id |-> id,
   book_id |-> Corpus[id].book_id,
   book_name |-> Corpus[id].book_name,
   chapter_start |-> Corpus[id].chapter_start,
   verse_start |-> Corpus[id].verse_start,
   chapter_end |-> Corpus[id].chapter_end,
   verse_end |-> Corpus[id].verse_end,
   title |-> Corpus[id].title,
   text |-> text,
   score |-> 1,
   sources |-> <<"dense">>]

InitContext ==
  /\ FuseIdle
  /\ GcIdle
  /\ PipeIdle
  /\ MoreIdle
  /\ cb_arg \in 0..MaxTokens
  /\ cb_results = <<>>
  /\ cb_out = [context |-> "", metadata |-> <<>>]
  /\ cb_pc = "build"

CbAddResult ==
  /\ cb_pc = "build"
  /\ Len(cb_results) < MaxSegments
  /\ \E id \in Ids, text \in Texts :
        cb_results' = Append(cb_results, Segment(id, text))
  /\ UNCHANGED <<cb_arg, cb_out, cb_pc, fuseVars, gcVars, moreVars, pipeVars>>

CbBuild ==
  /\ cb_pc = "build"
  /\ cb_out' = BuildWithMetadata(BuilderMaxTokens(cb_arg), cb_results)
  /\ cb_pc' = "done"
  /\ UNCHANGED <<cb_arg, cb_results, fuseVars, gcVars, moreVars, pipeVars>>

NextContext == CbAddResult \/ CbBuild

SpecContext == InitContext /\ [][NextContext]_vars

\* ====================================================================
\* SpecGraphContext: the graph context of the response for every bounded
\* list of graph results (execute lines 100-114 and 169-174)
\* ====================================================================
MaxGraphResults == 3

GcNames == {"Abe", "Sin"}
GcTypes == {"person", "topic", "event"}

\* A graph result with the graph context of a row: its type and the names
\* the row collected.
GraphResult(id, type, entities) ==
  [id |-> id, graph_context |-> [type |-> type, entities |-> entities]]

InitGraphContext ==
  /\ FuseIdle
  /\ CtxIdle
  /\ PipeIdle
  /\ MoreIdle
  /\ gc_results = <<>> /\ gc_used = <<>> /\ gc_present = FALSE
  /\ gc_field = NONE /\ gc_pc = "build"

GcAddResult ==
  /\ gc_pc = "build"
  /\ Len(gc_results) < MaxGraphResults
  /\ \E type \in GcTypes, entities \in DistinctSeqs(GcNames, 2) :
        gc_results' = Append(gc_results, GraphResult("A", type, entities))
  /\ UNCHANGED <<gc_used, gc_present, gc_field, gc_pc, fuseVars, ctxVars,
                 moreVars, pipeVars>>

\* if graph_results: append "graph", build the graph context; then the
\* graph_context field of the response.
GcRespond ==
  /\ gc_pc = "build"
  /\ gc_used' = UsedAfter(<<>>, "graph", gc_results)
  /\ \E data \in (IF gc_results # <<>> THEN BuildGraphContext(gc_results)
                   ELSE {EMPTY_GRAPH_CONTEXT}) :
        /\ gc_present' = HasGraphContext(data)
        /\ gc_field' = GraphContextField(data)
  /\ gc_pc' = "done"
  /\ UNCHANGED <<gc_results, fuseVars, ctxVars, moreVars, pipeVars>>

NextGraphContext == GcAddResult \/ GcRespond

SpecGraphContext == InitGraphContext /\ [][NextGraphContext]_vars

\* ====================================================================
\* SpecServices: requests of execute_query, each with its own session from
\* get_db_session, sharing the service singletons (api/deps.py lines 13-19,
\* api/v1/endpoints/query.py lines 14-54).  Neither getter suspends between
\* its test and its assignment (initialize holds no awaited call), so each
\* getter is one step; requests interleave between the steps.
\* ====================================================================
RequestIds == 1..NumRequests

NewRequest ==
  [pc |-> "get_db_session", session |-> "none", embed_service |-> 0,
   llm_client |-> 0, http_status |-> 0]

svcRest == <<fuseVars, ctxVars, gcVars, pipeVars, spVars, grVars, tailVars>>

InitServices ==
  /\ FuseIdle
  /\ CtxIdle
  /\ GcIdle
  /\ PipeIdle
  /\ SpIdle
  /\ GrIdle
  /\ TailIdle
  /\ embedding_service = 0 /\ embedding_objects = <<>>
  /\ llm_client = 0 /\ llm_objects = <<>>
  /\ model_loads = 0 /\ load_failures = 0
  /\ svc_req = [r \in RequestIds |-> NewRequest]

\* async with async_session_maker() as session: ... yield session
GetDbSession ==
  \E r \in RequestIds :
    /\ svc_req[r].pc = "get_db_session"
    /\ svc_req' = [svc_req EXCEPT ![r].pc = "get_embedding_service",
                                  ![r].session = "open"]
    /\ UNCHANGED <<embedding_service, embedding_objects, llm_client,
                   llm_objects, model_loads, load_failures, svcRest>>

\* except Exception in execute_query: HTTPException(500)
RequestFailed(r) ==
  [svc_req EXCEPT ![r].pc = "teardown", ![r].http_status = 500]

\* embed_service = await get_embedding_service()
GetEmbeddingService ==
  \E r \in RequestIds :
    /\ svc_req[r].pc = "get_embedding_service"
    /\ IF IsNone(embedding_service)
       THEN \E load_ok \in BOOLEAN :
              LET out == Initialize(NewEmbeddingService, load_ok)
                  at == Len(embedding_objects) + 1
              IN /\ out.raised => load_failures < MaxLoadFailures
                 /\ embedding_objects' = Append(embedding_objects, out.service)
                 /\ embedding_service' = at
                 /\ model_loads' = model_loads + out.constructed
                 /\ load_failures' =
                      load_failures + (IF out.raised THEN 1 ELSE 0)
                 /\ svc_req' =
                      IF out.raised
                      THEN RequestFailed(r)
                      ELSE [svc_req EXCEPT ![r].pc = "get_llm_client",
                                           ![r].embed_service = at]
       ELSE /\ svc_req' = [svc_req EXCEPT
                             ![r].pc = "get_llm_client",
                             ![r].embed_service = embedding_service]
            /\ UNCHANGED <<embedding_service, embedding_objects,
                           model_loads, load_failures>>
    /\ UNCHANGED <<llm_client, llm_objects, svcRest>>

\* llm_client = await get_llm_client()
GetLLMClient ==
  \E r \in RequestIds :
    /\ svc_req[r].pc = "get_llm_client"
    /\ IF IsNone(llm_client)
       THEN /\ llm_objects' = Append(llm_objects, NewLLMClient)
            /\ llm_client' = Len(llm_objects) + 1
       ELSE UNCHANGED <<llm_client, llm_objects>>
    /\ svc_req' = [svc_req EXCEPT ![r].pc = "execute",
                                  ![r].llm_client = llm_client']
    /\ UNCHANGED <<embedding_service, embedding_objects, model_loads,
                   load_failures, svcRest>>

\* pipeline.execute.  Classification may raise, before any retrieval.  The
\* dense retriever calls embed_service.encode, which initializes the service
\* when it is not initialized; a failure there is the dense retrieval error
\* that execute catches.  Generation may raise afterwards.
ExecutePipeline ==
  \E r \in RequestIds :
    /\ svc_req[r].pc = "execute"
    /\ \E raised_at \in {"none", "classify", "generate"}, load_ok \in BOOLEAN :
         LET at == svc_req[r].embed_service
             out == IF raised_at = "classify"
                    THEN [service |-> embedding_objects[at],
                          raised |-> FALSE, constructed |-> 0]
                    ELSE Initialize(embedding_objects[at], load_ok)
         IN /\ embedding_objects[at].initialized \/ raised_at = "classify"
                 => load_ok
            /\ out.raised => load_failures < MaxLoadFailures
            /\ embedding_objects' = [embedding_objects EXCEPT ![at] = out.service]
            /\ model_loads' = model_loads + out.constructed
            /\ load_failures' = load_failures + (IF out.raised THEN 1 ELSE 0)
            /\ svc_req' =
                 IF raised_at = "none"
                 THEN [svc_req EXCEPT ![r].pc = "teardown",
                                      ![r].http_status = 200]
                 ELSE RequestFailed(r)
    /\ UNCHANGED <<embedding_service, llm_client, llm_objects, svcRest>>

\* finally: await session.close(), whatever the endpoint did
SessionAfterRequestOnSuccess(http_status_of_request) ==
  IF http_status_of_request = 200 THEN "closed" ELSE "open"

SessionAfterRequest(http_status_of_request) == "closed"

CloseSession ==
  \E r \in RequestIds :
    /\ svc_req[r].pc = "teardown"
    /\ svc_req' = [svc_req EXCEPT
                     ![r].pc = "done",
                     ![r].session = SessionAfterRequest(svc_req[r].http_status)]
    /\ UNCHANGED <<embedding_service, embedding_objects, llm_client,
                   llm_objects, model_loads, load_failures, svcRest>>

NextServices ==
  \/ GetDbSession \/ GetEmbeddingService \/ GetLLMClient
  \/ ExecutePipeline \/ CloseSession

SpecServices == InitServices /\ [][NextServices]_vars

\* The event loop resumes a request whenever the call it awaits returns or
\* raises, and the teardown of a dependency always runs.
FairServices == SpecServices /\ WF_svcVars(NextServices)

\* ====================================================================
\* Spec: one request through execute_query and RAGPipeline.execute
\* ====================================================================
Modes == {"auto", "verse", "topic", "person", "event"}

\* QueryOptions: max_results is 1..MAX_RESULTS_LIMIT with a default, and
\* include_graph defaults to False.
MAX_RESULTS_LIMIT == 20
DEFAULT_MAX_RESULTS == 5

\* The options of a validated request: what the body gave, or the defaults
\* of the schema when the body gave none.
QueryOptionsGraphByDefault(given, max_results, include_graph) ==
  IF given
  THEN [max_results |-> max_results, include_graph |-> include_graph]
  ELSE [max_results |-> DEFAULT_MAX_RESULTS, include_graph |-> TRUE]

QueryOptions(given, max_results, include_graph) ==
  IF given
  THEN [max_results |-> max_results, include_graph |-> include_graph]
  ELSE [max_results |-> DEFAULT_MAX_RESULTS, include_graph |-> FALSE]

\* QueryRequest after validation (options.max_results is 1..20 in the
\* source, 1..MaxResults here when the body gives it).
QueryRequest(mode, given, max_results, include_graph) ==
  [mode |-> mode,
   options_given |-> given,
   max_results |-> QueryOptions(given, max_results, include_graph).max_results,
   include_graph |->
     QueryOptions(given, max_results, include_graph).include_graph]

Requests ==
  {QueryRequest(mode, TRUE, max_results, include_graph) :
     mode \in Modes, max_results \in 1..MaxResults, include_graph \in BOOLEAN}
  \cup {QueryRequest(mode, FALSE, 1, FALSE) : mode \in Modes}

\* execute_query builds RAGPipeline with the default use_graph.
USE_GRAPH == TRUE

\* top_k of every retrieve call of the pipeline.
TOP_K == MAX_RETRIEVE_RESULTS

\* Replies of the classification prompt: up to two tokens.
ReplyTokens ==
  {" ", "verse_lookup", "Topic_Question", "person_question", "Event_question",
   "general_bible_question", "unsure"}

ClassifyReplies ==
  {<<>>} \cup {<<t>> : t \in ReplyTokens}
         \cup {<<t, u>> : t \in ReplyTokens, u \in ReplyTokens}

\* Replies of the entity-extraction prompt, as comma-separated parts.
EntityParts == {"", " ", "Abe"}
EntityReplies ==
  {<<t>> : t \in EntityParts} \cup {<<t, u>> : t \in EntityParts, u \in EntityParts}

\* Rows of the distance query: distinct passages, nearest first.
DenseRowSets ==
  {[r \in DOMAIN ids |-> [id |-> ids[r], distance |-> r]] :
     ids \in DistinctSeqs(StoreIds, MaxRetrieve)}

RawRanks == {3, 8}

\* Rows of the verse query: distinct passages, best raw rank first.
VerseRowSets ==
  UNION {{[r \in DOMAIN ids |-> [pericope_id |-> ids[r], rank |-> ranks[r]]] :
            ranks \in {q \in [DOMAIN ids -> RawRanks] :
                         \A i, j \in DOMAIN ids : i < j => q[i] >= q[j]}} :
         ids \in DistinctSeqs(StoreIds, MaxRetrieve)}

\* The orders in which the passage query can return the passages asked for.
FetchOrders(pericope_ids) ==
  LET wanted == {pericope_ids[i] : i \in DOMAIN pericope_ids}
  IN {q \in DistinctSeqs(wanted, Cardinality(wanted)) :
        Len(q) = Cardinality(wanted)}

\* Replies of the graph store to one traversal query: a failure, or rows by
\* weight descending; a passage may come once per matched entity.
GraphRows(type) ==
  UNION {{[r \in 1..n |->
             [id |-> ids[r], weight |-> IF r = 1 THEN 12 ELSE 4,
              names |-> <<type \o ToString(r)>>]] :
            ids \in [1..n -> StoreIds]} :
         n \in 0..MaxGraphRows}

ReadReplies(type) ==
  {[failed |-> TRUE, rows |-> <<>>]}
    \cup {[failed |-> FALSE, rows |-> rows] : rows \in GraphRows(type)}

Init ==
  /\ FuseIdle
  /\ CtxIdle
  /\ GcIdle
  /\ MoreIdle
  /\ pc = "classify"
  /\ req \in Requests
  /\ RequestStart
  /\ db_tx = "active"
  /\ \E up \in BOOLEAN :
        /\ neo_driver = up
        /\ neo_initialized = up
        /\ env = [NoEnv EXCEPT !.neo_was_up = up]

harnessVars == <<fuseVars, ctxVars, gcVars, moreVars>>
neoVars == <<neo_driver, neo_initialized>>
retrievalVars ==
  <<used_retrievers, dense_results, sparse_results, graph_results,
    graph_context_data>>
assemblyVars == <<fused_results, context, metadata>>

\* except Exception in execute_query: HTTPException(500); the session of
\* the request is closed by get_db_session.
FailSwallowed(stage) ==
  /\ pc' = "respond"
  /\ http_status' = http_status
  /\ response' = response
  /\ db_tx' = db_tx
  /\ env' = [env EXCEPT !.failed_at = stage]

Fail(stage) ==
  /\ pc' = "error"
  /\ http_status' = 500
  /\ response' = NONE
  /\ db_tx' = "closed"
  /\ env' = [env EXCEPT !.failed_at = stage]

\* ---- Step 1: classification
ClassifyAuto ==
  /\ pc = "classify"
  /\ req.mode = "auto"
  /\ \E reply \in ClassifyReplies :
        /\ llm_reply' = reply
        /\ query_type' = ParseClassification(reply)
  /\ calls' = [calls EXCEPT !.classify = @ + 1]
  /\ pc' = "dense"
  /\ UNCHANGED <<req, retrievalVars, assemblyVars, answer, response,
                 http_status, db_tx, neoVars, env, sent, harnessVars>>

ClassifyRaises ==
  /\ pc = "classify"
  /\ req.mode = "auto"
  /\ calls' = [calls EXCEPT !.classify = @ + 1]
  /\ Fail("classify")
  /\ UNCHANGED <<req, query_type, llm_reply, retrievalVars, assemblyVars,
                 answer, neoVars, sent, harnessVars>>

ClassifyExplicit ==
  /\ pc = "classify"
  /\ req.mode # "auto"
  /\ query_type' = ExplicitModeTag(req.mode)
  /\ pc' = "dense"
  /\ UNCHANGED <<req, llm_reply, retrievalVars, assemblyVars, answer,
                 response, http_status, db_tx, neoVars, calls, env, sent,
                 harnessVars>>

\* ---- Step 2: dense retrieval, inside try / except Exception
DenseReturns ==
  /\ pc = "dense"
  /\ db_tx = "active"
  /\ \E rows \in DenseRowSets :
        LET results == DenseResults(rows)
        IN /\ dense_results' = results
           /\ used_retrievers' = UsedAfter(used_retrievers, "dense", results)
           /\ env' = [env EXCEPT !.dense_expected = results]
  /\ llm_reply' = NONE
  /\ calls' = [calls EXCEPT !.dense = @ + 1]
  /\ pc' = "sparse"
  /\ UNCHANGED <<req, query_type, sparse_results, graph_results,
                 graph_context_data, assemblyVars, answer, response,
                 http_status, db_tx, neoVars, sent, harnessVars>>

\* The embedding fails ("encode"), or a statement of the retriever fails in
\* the database ("db"); a failed statement can leave the transaction of the
\* session aborted, and nothing in execute rolls it back.
DenseRaises ==
  /\ pc = "dense"
  /\ \E fault \in {"encode", "db"}, aborts \in BOOLEAN :
        /\ fault = "encode" => ~aborts
        /\ db_tx' = IF aborts THEN "aborted" ELSE db_tx
  /\ env' = [env EXCEPT !.dense_raised = TRUE]
  /\ dense_results' = <<>>
  /\ llm_reply' = NONE
  /\ calls' = [calls EXCEPT !.dense = @ + 1]
  /\ pc' = "sparse"
  /\ UNCHANGED <<req, query_type, used_retrievers, sparse_results,
                 graph_results, graph_context_data, assemblyVars, answer,
                 response, http_status, neoVars, sent, harnessVars>>

\* ---- Step 2: sparse retrieval, on the same session
SparseReturns ==
  /\ pc = "sparse"
  /\ db_tx = "active"
  /\ \E verse_rows \in VerseRowSets :
        \E pericopes \in FetchOrders(SparsePericopeIds(verse_rows, TOP_K)) :
           LET results == SparseResults(verse_rows, pericopes, TOP_K)
           IN /\ sparse_results' = results
              /\ used_retrievers' = UsedAfter(used_retrievers, "sparse", results)
              /\ env' = [env EXCEPT !.sparse_expected = results]
  /\ calls' = [calls EXCEPT !.sparse = @ + 1]
  /\ pc' = "graph"
  /\ UNCHANGED <<req, query_type, llm_reply, dense_results, graph_results,
                 graph_context_data, assemblyVars, answer, response,
                 http_status, db_tx, neoVars, sent, harnessVars>>

\* A statement of the sparse retriever fails by itself.
SparseRaises ==
  /\ pc = "sparse"
  /\ \E aborts \in BOOLEAN :
        db_tx' = IF aborts THEN "aborted" ELSE db_tx
  /\ env' = [env EXCEPT !.sparse_raised = TRUE, !.sparse_fault = "db"]
  /\ sparse_results' = <<>>
  /\ calls' = [calls EXCEPT !.sparse = @ + 1]
  /\ pc' = "graph"
  /\ UNCHANGED <<req, query_type, llm_reply, used_retrievers, dense_results,
                 graph_results, graph_context_data, assemblyVars, answer,
                 response, http_status, neoVars, sent, harnessVars>>

\* The first statement of the sparse retriever is refused because the
\* transaction is aborted; the store holds what the query would have found.
SparseRaisesInAbortedTransaction ==
  /\ pc = "sparse"
  /\ db_tx = "aborted"
  /\ \E verse_rows \in VerseRowSets :
        \E pericopes \in FetchOrders(SparsePericopeIds(verse_rows, TOP_K)) :
           env' = [env EXCEPT
                     !.sparse_raised = TRUE,
                     !.sparse_expected = SparseResults(verse_rows, pericopes, TOP_K)]
  /\ sparse_results' = <<>>
  /\ calls' = [calls EXCEPT !.sparse = @ + 1]
  /\ pc' = "graph"
  /\ UNCHANGED <<req, query_type, llm_reply, used_retrievers, dense_results,
                 graph_results, graph_context_data, assemblyVars, answer,
                 response, http_status, db_tx, neoVars, sent, harnessVars>>

\* ---- Step 2: graph retrieval
Available == IsAvailable(neo_initialized, neo_driver)

\* The condition of line 104 is false: graph retrieval is not attempted.
GraphSkipped ==
  /\ pc = "graph"
  /\ ~GraphGate(USE_GRAPH, req.include_graph, Available)
  /\ pc' = "assemble"
  /\ UNCHANGED <<req, query_type, llm_reply, retrievalVars, assemblyVars,
                 answer, response, http_status, db_tx, neoVars, calls, env,
                 sent, harnessVars>>

\* graph_retriever.retrieve is called and passes its own availability test.
GraphEntered ==
  /\ pc = "graph"
  /\ GraphGate(USE_GRAPH, req.include_graph, Available)
  /\ calls' = [calls EXCEPT !.graph = @ + 1]
  /\ sent' = [sent EXCEPT !.graph_tag = query_type]
  /\ pc' = "extract"
  /\ UNCHANGED <<req, query_type, llm_reply, retrievalVars, assemblyVars,
                 answer, response, http_status, db_tx, neoVars, env,
                 harnessVars>>

\* _extract_entities_from_query: the LLM replies, or raises and the query
\* itself becomes the one entity; without entities retrieve returns [].
GraphExtract ==
  /\ pc = "extract"
  /\ calls' = [calls EXCEPT !.extract = @ + 1]
  /\ \E raised \in BOOLEAN, parts \in EntityReplies :
        LET entities == IF raised THEN <<QUERY>> ELSE ParseEntities(parts)
        IN pc' = IF entities = <<>> THEN "assemble" ELSE "traverse"
  /\ UNCHANGED <<req, query_type, llm_reply, retrievalVars, assemblyVars,
                 answer, response, http_status, db_tx, neoVars, env, sent,
                 harnessVars>>

\* retrieve returned results (lines 107-114 of execute).
GraphReturned(results, reads) ==
  /\ graph_results' = results
  /\ used_retrievers' = UsedAfter(used_retrievers, "graph", results)
  /\ IF results # <<>>
     THEN graph_context_data' \in BuildGraphContext(results)
     ELSE graph_context_data' = graph_context_data
  /\ calls' = [calls EXCEPT !.traverse = @ + (IF Available THEN reads ELSE 0)]
  /\ pc' = "assemble"
  /\ UNCHANGED <<req, query_type, llm_reply, dense_results, sparse_results,
                 assemblyVars, answer, response, http_status, db_tx, neoVars,
                 env, sent, harnessVars>>

\* One of the three scoped strategies.
GraphTraverseScoped ==
  /\ pc = "traverse"
  /\ Strategy(query_type) # "general"
  /\ \E reply \in ReadReplies(Strategy(query_type)) :
        GraphReturned(
          GraphResults(ExecuteRead(Available, reply), Strategy(query_type)), 1)

\* The general strategy: the three scoped ones, merged.
GraphTraverseGeneral ==
  /\ pc = "traverse"
  /\ Strategy(query_type) = "general"
  /\ \E person_reply \in ReadReplies("person"),
        topic_reply \in ReadReplies("topic"),
        event_reply \in ReadReplies("event") :
        GraphReturned(
          RetrieveGeneral(
            GraphResults(ExecuteRead(Available, person_reply), "person"),
            GraphResults(ExecuteRead(Available, topic_reply), "topic"),
            GraphResults(ExecuteRead(Available, event_reply), "event"),
            TOP_K), 3)

\* A row of the reply cannot be turned into a result (a missing key, a null
\* verse text): retrieve raises and execute catches it.
GraphRaises ==
  /\ pc = "traverse"
  /\ Available
  /\ graph_results' = <<>>
  /\ env' = [env EXCEPT !.graph_raised = TRUE]
  /\ calls' = [calls EXCEPT !.traverse = @ + 1]
  /\ pc' = "assemble"
  /\ UNCHANGED <<req, query_type, llm_reply, used_retrievers, dense_results,
                 sparse_results, graph_context_data, assemblyVars, answer,
                 response, http_status, db_tx, neoVars, sent, harnessVars>>

\* ---- Steps 3 and 4: fuse, truncate, build the context
\* if fused_results: generate the answer, else: the apology and the response.
AfterAssembleRetry(fused) ==
  IF fused # <<>> THEN "generate" ELSE "dense"

AfterAssemble(fused) ==
  IF fused # <<>> THEN "generate" ELSE "respond"

Assemble ==
  /\ pc = "assemble"
  /\ LET result_lists ==
           ResultLists(dense_results, sparse_results, graph_results)
         fused == FusedAndTruncated(result_lists, req.max_results)
         built == BuildWithMetadata(BuilderMaxTokens(0), fused)
     IN /\ fused_results' = fused
        /\ context' = built.context
        /\ metadata' = built.metadata
        /\ calls' = [calls EXCEPT
                       !.fuse = @ + (IF result_lists # <<>> THEN 1 ELSE 0),
                       !.build = @ + 1]
        /\ sent' = [sent EXCEPT
                      !.fusion = [i \in DOMAIN result_lists |->
                                    result_lists[i].name]]
        /\ pc' = AfterAssemble(fused)
        /\ answer' = IF fused # <<>> THEN answer ELSE APOLOGY
  /\ UNCHANGED <<req, query_type, llm_reply, retrievalVars, response,
                 http_status, db_tx, neoVars, env, harnessVars>>

\* ---- Step 5: answer generation
Generate ==
  /\ pc = "generate"
  /\ calls' = [calls EXCEPT !.generate = @ + 1]
  /\ sent' = [sent EXCEPT
                !.generate = GenerateArgs(QUERY, context, query_type)]
  /\ answer' = Generated(QUERY, context, query_type)
  /\ pc' = "respond"
  /\ UNCHANGED <<req, query_type, llm_reply, retrievalVars, assemblyVars,
                 response, http_status, db_tx, neoVars, env, harnessVars>>

GenerateRaises ==
  /\ pc = "generate"
  /\ calls' = [calls EXCEPT !.generate = @ + 1]
  /\ sent' = [sent EXCEPT
                !.generate = GenerateArgs(QUERY, context, query_type)]
  /\ Fail("generate")
  /\ UNCHANGED <<req, query_type, llm_reply, retrievalVars, assemblyVars,
                 answer, neoVars, harnessVars>>

\* ---- Step 6: the response
Respond ==
  /\ pc = "respond"
  /\ response' = Response(answer, fused_results, query_type, used_retrievers,
                          graph_context_data)
  /\ http_status' = 200
  /\ db_tx' = "closed"
  /\ pc' = "done"
  /\ UNCHANGED <<req, query_type, llm_reply, retrievalVars, assemblyVars,
                 answer, neoVars, calls, env, sent, harnessVars>>

\* Neo4jClient.close, run by the lifespan handler at shutdown.
NeoClose ==
  /\ neo_driver
  /\ neo_driver' = FALSE
  /\ neo_initialized' = FALSE
  /\ UNCHANGED <<pc, req, query_type, llm_reply, retrievalVars, assemblyVars,
                 answer, response, http_status, db_tx, calls, env, sent,
                 harnessVars>>

Next ==
  \/ ClassifyAuto \/ ClassifyRaises \/ ClassifyExplicit
  \/ DenseReturns \/ DenseRaises
  \/ SparseReturns \/ SparseRaises \/ SparseRaisesInAbortedTransaction
  \/ GraphSkipped \/ GraphEntered \/ GraphExtract
  \/ GraphTraverseScoped \/ GraphTraverseGeneral \/ GraphRaises
  \/ Assemble \/ Generate \/ GenerateRaises \/ Respond
  \/ NeoClose

Spec == Init /\ [][Next]_vars

\* ====================================================================
\* SpecSparse: SparseRetriever.retrieve applied to every bounded reply of
\* the verse query and every order of the passage query
\* ====================================================================
\* Raw ts_rank values of the verse query, in tenths.
LexicalRanks == {3, 6, 8}

spRest == <<fuseVars, ctxVars, gcVars, pipeVars, svcVars, grVars, tailVars>>

InitSparse ==
  /\ FuseIdle
  /\ CtxIdle
  /\ GcIdle
  /\ PipeIdle
  /\ SvcIdle
  /\ GrIdle
  /\ TailIdle
  /\ sp_top_k \in 1..MaxTopK
  /\ sp_rows = <<>>
  /\ sp_out = <<>>
  /\ sp_pc = "query"

\* A further row of the verse query: one row a passage (GROUP BY), best
\* rank first (ORDER BY rank DESC), at most top_k * 2 rows (LIMIT).
SpAddRow ==
  /\ sp_pc = "query"
  /\ Len(sp_rows) < sp_top_k * 2
  /\ \E id \in Ids, rank \in LexicalRanks :
        /\ \A r \in DOMAIN sp_rows :
              sp_rows[r].pericope_id # id /\ sp_rows[r].rank >= rank
        /\ sp_rows' = Append(sp_rows, [pericope_id |-> id, rank |-> rank])
  /\ UNCHANGED <<sp_top_k, sp_out, sp_pc, spRest>>

SpRetrieve ==
  /\ sp_pc = "query"
  /\ \E pericopes \in FetchOrders(SparsePericopeIds(sp_rows, sp_top_k)) :
        sp_out' = SparseResults(sp_rows, pericopes, sp_top_k)
  /\ sp_pc' = "done"
  /\ UNCHANGED <<sp_top_k, sp_rows, spRest>>

NextSparse == SpAddRow \/ SpRetrieve

SpecSparse == InitSparse /\ [][NextSparse]_vars

\* ====================================================================
\* SpecGraph: the graph step of execute (rag_pipeline.py lines 99-117)
\* with GraphRetriever.retrieve, for every tag, every bounded reply of the
\* store, and Neo4jClient.close at any moment
\* ====================================================================
GraphTags ==
  {"PERSON_QUESTION", "TOPIC_QUESTION", "EVENT_QUESTION",
   "GENERAL_BIBLE_QUESTION"}

GraphWeights == {4, 12}

\* Rows of one traversal query: by weight descending, at most limit rows; a
\* passage comes once per group of its matched entities.
TraversalRows(type, limit) ==
  UNION {{[r \in 1..n |->
             [id |-> ids[r], weight |-> weights[r],
              names |-> <<type \o ToString(r)>>]] :
            ids \in [1..n -> StoreIds],
            weights \in {w \in [1..n -> GraphWeights] :
                           \A i, j \in 1..n : i < j => w[i] >= w[j]}} :
         n \in 0..Min(limit, MaxReplyRows)}

TraversalReplies(type, limit) ==
  {[failed |-> TRUE, rows |-> <<>>]}
    \cup {[failed |-> FALSE, rows |-> rows] :
            rows \in TraversalRows(type, limit)}

\* The traversals of a strategy, in call order, and the limit of each.
Traversals(tag) ==
  IF Strategy(tag) = "general"
  THEN <<"person", "topic", "event">>
  ELSE <<Strategy(tag)>>

TraversalLimit(tag, top_k) ==
  IF Strategy(tag) = "general" THEN KPerType(top_k) ELSE top_k

\* What retrieve returns once its traversals are made.
RetrieveReturn(tag, parts, top_k) ==
  IF Strategy(tag) = "general"
  THEN RetrieveGeneral(parts[1], parts[2], parts[3], top_k)
  ELSE parts[1]

grRest == <<fuseVars, ctxVars, gcVars, pipeVars, svcVars, spVars, tailVars>>

InitGraph ==
  /\ FuseIdle
  /\ CtxIdle
  /\ GcIdle
  /\ PipeIdle
  /\ SvcIdle
  /\ SpIdle
  /\ TailIdle
  /\ gr_query_type \in GraphTags
  /\ gr_top_k \in 1..MaxTopK
  /\ gr_up \in BOOLEAN
  /\ gr_parts = <<>> /\ gr_reads = <<>> /\ gr_out = <<>> /\ gr_used = <<>>
  /\ gr_pc = "gate"

\* Line 104 of execute, then line 63 of retrieve, with no await between.
GrGate ==
  /\ gr_pc = "gate"
  /\ gr_pc' = IF GraphGate(USE_GRAPH, TRUE, gr_up) THEN "extract" ELSE "done"
  /\ UNCHANGED <<gr_query_type, gr_top_k, gr_up, gr_parts, gr_reads, gr_out,
                 gr_used, grRest>>

\* _extract_entities_from_query; without entities retrieve returns [].
GrExtract ==
  /\ gr_pc = "extract"
  /\ \E raised \in BOOLEAN, parts \in EntityReplies :
        LET entities == IF raised THEN <<QUERY>> ELSE ParseEntities(parts)
        IN gr_pc' = IF entities = <<>> THEN "done" ELSE "read"
  /\ UNCHANGED <<gr_query_type, gr_top_k, gr_up, gr_parts, gr_reads, gr_out,
                 gr_used, grRest>>

\* One scoped traversal: execute_read and the list comprehension; after the
\* last one retrieve returns and execute records the use of the retriever.
GrRead ==
  /\ gr_pc = "read"
  /\ LET todo == Traversals(gr_query_type)
         type == todo[Len(gr_parts) + 1]
     IN \E reply \in TraversalReplies(
                       type, TraversalLimit(gr_query_type, gr_top_k)) :
          LET results == GraphResults(ExecuteRead(gr_up, reply), type)
              parts == Append(gr_parts, results)
              ended == IF ReadEscapes(gr_up, reply) THEN "raised"
                       ELSE IF ~gr_up THEN "unavailable"
                       ELSE IF reply.failed THEN "failed"
                       ELSE "rows"
          IN /\ gr_parts' = parts
             /\ gr_reads' = Append(gr_reads, ended)
             /\ IF Len(parts) = Len(todo)
                THEN /\ gr_out' = RetrieveReturn(gr_query_type, parts, gr_top_k)
                     /\ gr_used' = UsedAfter(gr_used, "graph", gr_out')
                     /\ gr_pc' = "done"
                ELSE UNCHANGED <<gr_out, gr_used, gr_pc>>
  /\ UNCHANGED <<gr_query_type, gr_top_k, gr_up, grRest>>

\* Neo4jClient.close while the request runs.
GrClose ==
  /\ gr_pc # "done"
  /\ gr_up
  /\ gr_up' = FALSE
  /\ UNCHANGED <<gr_query_type, gr_top_k, gr_parts, gr_reads, gr_out, gr_used,
                 gr_pc, grRest>>

NextGraph == GrGate \/ GrExtract \/ GrRead \/ GrClose

SpecGraph == InitGraph /\ [][NextGraph]_vars


\* ====================================================================
\* SpecSources: steps 3 (cut), 4 and 6 of RAGPipeline.execute applied to
\* fused lists whose passages have the lengths of real passages
\* ====================================================================
RECURSIVE Doubled(_, _)
\* A text of Len(text) * 2^n characters.
Doubled(text, n) ==
  IF n = 0 THEN text ELSE LET half == Doubled(text, n - 1) IN half \o half

\* The passage texts a fused list carries: a verse-long one and one of
\* 4096 characters, two of which exceed MaxChars(MAX_CONTEXT_TOKENS).
PassageTexts == {"x", Doubled("x", 12)}

\* fused_results[:max_results]
Truncated(fused, max_results) == Prefix(fused, max_results)

srRest ==
  <<fuseVars, ctxVars, gcVars, pipeVars, svcVars, spVars, grVars, njVars>>

InitSources ==
  /\ FuseIdle
  /\ CtxIdle
  /\ GcIdle
  /\ PipeIdle
  /\ SvcIdle
  /\ SpIdle
  /\ GrIdle
  /\ NjIdle
  /\ sr_fused = <<>>
  /\ sr_max_results \in 1..MaxSegments
  /\ sr_segments = <<>> /\ sr_metadata = <<>>
  /\ sr_pc = "fused"

\* One more passage in the list fuse returns; fuse returns distinct ids.
SrAddResult ==
  /\ sr_pc = "fused"
  /\ Len(sr_fused) < MaxSegments
  /\ \E id \in Ids, text \in PassageTexts :
        /\ \A i \in DOMAIN sr_fused : sr_fused[i].id # id
        /\ sr_fused' = Append(sr_fused, Segment(id, text))
  /\ UNCHANGED <<sr_max_results, sr_segments, sr_metadata, sr_pc, srRest>>

\* Lines 134-166: the cut to max_results, build_with_metadata of the
\* pipeline's ContextBuilder(), and the segments of the response.
SrRespond ==
  /\ sr_pc = "fused"
  /\ LET fused == Truncated(sr_fused, sr_max_results)
     IN /\ sr_metadata' =
             BuildWithMetadata(BuilderMaxTokens(0), fused).metadata
        /\ sr_segments' = Segments(fused)
  /\ sr_pc' = "done"
  /\ UNCHANGED <<sr_fused, sr_max_results, srRest>>

NextSources == SrAddResult \/ SrRespond

SpecSources == InitSources /\ [][NextSources]_vars

\* ====================================================================
\* SpecNeo4j: initialize(), close() and execute_read() of Neo4jClient,
\* called in any order; a call that awaits is two steps, and other calls
\* may run between them
\* ====================================================================
VerifyOutcomes == {"ok", "caught", "other"}

\* initialize, lines 38-44, once verify_connectivity() has ended: "ok" it
\* returned, "caught" it raised ServiceUnavailable or AuthError, "other" it
\* raised anything else, which leaves initialize through no handler.
AfterVerify(outcome, driver, initialized) ==
  CASE outcome = "ok" -> [driver |-> driver, initialized |-> TRUE]
    [] outcome = "caught" -> [driver |-> 0, initialized |-> FALSE]
    [] OTHER -> [driver |-> driver, initialized |-> initialized]

AfterCloseKeepsFlag(driver, initialized) ==
  [driver |-> 0, initialized |-> initialized]

\* close, lines 53-54, once driver.close() has returned.
AfterClose(driver, initialized) ==
  [driver |-> 0, initialized |-> FALSE]

NewDriver == [verified |-> FALSE, closed |-> FALSE]

\* A call: op, where it stands, the driver object its await was made on,
\* the value of _driver it found on entry, whether it created a driver,
\* and whether no initialize() or close() was under way when it began.
Call(op, call_pc, driver, found, created, alone) ==
  [op |-> op, pc |-> call_pc, driver |-> driver, found |-> found,
   created |-> created, alone |-> alone]

LifecycleUnderWay ==
  \E i \in DOMAIN nj_calls : nj_calls[i].pc \in {"verify", "closing"}

njRest ==
  <<fuseVars, ctxVars, gcVars, pipeVars, svcVars, spVars, grVars, srVars>>

InitNeo4j ==
  /\ FuseIdle
  /\ CtxIdle
  /\ GcIdle
  /\ PipeIdle
  /\ SvcIdle
  /\ SpIdle
  /\ GrIdle
  /\ SrIdle
  /\ nj_driver = 0
  /\ nj_initialized = FALSE
  /\ nj_drivers = <<>>
  /\ nj_calls = <<>>
  /\ nj_last = "none"

\* initialize() up to its await: the early return of line 27, or the
\* creation of the driver, which may itself raise (a malformed URI).
NjInitialize ==
  /\ Len(nj_calls) < MaxCalls
  /\ IF nj_driver # 0
     THEN /\ nj_calls' = Append(nj_calls,
                 Call("initialize", "returned", 0, nj_driver, FALSE,
                      ~LifecycleUnderWay))
          /\ UNCHANGED <<nj_driver, nj_drivers, nj_last>>
     ELSE \E made \in BOOLEAN :
            IF made
            THEN /\ nj_drivers' = Append(nj_drivers, NewDriver)
                 /\ nj_driver' = Len(nj_drivers) + 1
                 /\ nj_calls' = Append(nj_calls,
                        Call("initialize", "verify", Len(nj_drivers) + 1, 0,
                             TRUE, ~LifecycleUnderWay))
                 /\ UNCHANGED nj_last
            ELSE /\ nj_calls' = Append(nj_calls,
                        Call("initialize", "raised", 0, 0, FALSE,
                             ~LifecycleUnderWay))
                 /\ nj_last' = "down"
                 /\ UNCHANGED <<nj_driver, nj_drivers>>
  /\ UNCHANGED <<nj_initialized, njRest>>

\* initialize() from the end of verify_connectivity() on.
NjVerified ==
  /\ \E i \in DOMAIN nj_calls, outcome \in VerifyOutcomes :
        /\ nj_calls[i].op = "initialize" /\ nj_calls[i].pc = "verify"
        /\ LET after == AfterVerify(outcome, nj_driver, nj_initialized)
           IN /\ nj_driver' = after.driver
              /\ nj_initialized' = after.initialized
        /\ nj_drivers' =
             IF outcome = "ok"
             THEN [nj_drivers EXCEPT ![nj_calls[i].driver].verified = TRUE]
             ELSE nj_drivers
        /\ nj_calls' =
             [nj_calls EXCEPT
                ![i].pc = IF outcome = "other" THEN "raised" ELSE "returned"]
        /\ nj_last' = IF outcome = "ok" THEN "up" ELSE "down"
  /\ UNCHANGED njRest

\* close() up to its await: nothing to do without a driver.
NjClose ==
  /\ Len(nj_calls) < MaxCalls
  /\ IF nj_driver = 0
     THEN /\ nj_calls' = Append(nj_calls,
                 Call("close", "returned", 0, 0, FALSE, ~LifecycleUnderWay))
          /\ nj_last' = "down"
     ELSE /\ nj_calls' = Append(nj_calls,
                 Call("close", "closing", nj_driver, nj_driver, FALSE,
                      ~LifecycleUnderWay))
          /\ UNCHANGED nj_last
  /\ UNCHANGED <<nj_driver, nj_initialized, nj_drivers, njRest>>

\* close() from the end of driver.close() on; if that raised, the two
\* assignments are not reached.
NjClosed ==
  /\ \E i \in DOMAIN nj_calls, closed \in BOOLEAN :
        /\ nj_calls[i].op = "close" /\ nj_calls[i].pc = "closing"
        /\ IF closed
           THEN LET after == AfterClose(nj_driver, nj_initialized)
                IN /\ nj_driver' = after.driver
                   /\ nj_initialized' = after.initialized
                   /\ nj_drivers' =
                        [nj_drivers EXCEPT ![nj_calls[i].driver].closed = TRUE]
                   /\ nj_last' = "down"
                   /\ nj_calls' = [nj_calls EXCEPT ![i].pc = "returned"]
           ELSE /\ nj_calls' = [nj_calls EXCEPT ![i].pc = "raised"]
                /\ UNCHANGED <<nj_driver, nj_initialized, nj_drivers, nj_last>>
  /\ UNCHANGED njRest

\* execute_read() up to its await: [] at once when is_available() is false.
NjRead ==
  /\ Len(nj_calls) < MaxCalls
  /\ nj_calls' = Append(nj_calls,
        IF IsAvailable(nj_initialized, nj_driver # 0)
        THEN Call("read", "reading", nj_driver, nj_driver, FALSE, TRUE)
        ELSE Call("read", "returned", 0, nj_driver, FALSE, TRUE))
  /\ UNCHANGED <<nj_driver, nj_initialized, nj_drivers, nj_last, njRest>>

\* execute_read() from the end of the query on: rows, or [] after a caught
\* exception; the client's attributes are not written.
NjReadDone ==
  /\ \E i \in DOMAIN nj_calls :
        /\ nj_calls[i].op = "read" /\ nj_calls[i].pc = "reading"
        /\ nj_calls' = [nj_calls EXCEPT ![i].pc = "returned"]
  /\ UNCHANGED <<nj_driver, nj_initialized, nj_drivers, nj_last, njRest>>

NextNeo4j ==
  \/ NjInitialize
  \/ NjVerified
  \/ NjClose
  \/ NjClosed
  \/ NjRead
  \/ NjReadDone

SpecNeo4j == InitNeo4j /\ [][NextNeo4j]_vars

\* ====================================================================
\* Properties of RRFFusion.fuse (checked under SpecFuse)
\* ====================================================================
FzK == FusionK(fz_k)
FzDone == fz_pc = "done"

\* Every (source, rank) position of the input at which id stands.
Occurrences(id) ==
  {p \in (DOMAIN fz_lists) \X (1..MaxLen) :
     /\ p[2] <= Len(fz_lists[p[1]].results)
     /\ fz_lists[p[1]].results[p[2]].id = id}

InputIds ==
  {fz_lists[p[1]].results[p[2]].id :
     p \in {q \in (DOMAIN fz_lists) \X (1..MaxLen) :
              q[2] <= Len(fz_lists[q[1]].results)}}

OutIds == [j \in DOMAIN fz_out |-> fz_out[j].id]

\* The ids of the input in the order fusion meets them.
RECURSIVE FlatIds(_, _)
FlatIds(lists, i) ==
  IF i > Len(lists) THEN <<>>
  ELSE [r \in DOMAIN lists[i].results |-> lists[i].results[r].id]
       \o FlatIds(lists, i + 1)

FirstSeen(id) ==
  LET flat == FlatIds(fz_lists, 1)
  IN CHOOSE n \in DOMAIN flat :
       flat[n] = id /\ \A m \in 1..(n - 1) : flat[m] # id

\* C1: the fused score of every output id is exactly the sum of 1/(k + r)
\* over every occurrence of the id at 1-indexed rank r in any source list
\* (in 1/Scale(k) units, each 1/(k + r) being a whole number of units).
C1_ScoreIsSumOfReciprocalRanks ==
  FzDone =>
    \A j \in DOMAIN fz_out :
      LET occ == Occurrences(fz_out[j].id)
      IN /\ \A p \in occ : (Scale(FzK) \div (FzK + p[2])) * (FzK + p[2]) = Scale(FzK)
         /\ fz_out[j].score =
              SumSet(occ, [p \in occ |-> Scale(FzK) \div (FzK + p[2])])

\* An id ranked by two sources at different ranks and twice by one source.
C1_Witness ==
  /\ FzDone
  /\ \E j \in DOMAIN fz_out :
       \E p, q, u \in Occurrences(fz_out[j].id) :
          p[1] # q[1] /\ p[2] # q[2] /\ u[1] = q[1] /\ u[2] # q[2]

\* Source-local scores replaced by another scoring of the same ranked ids.
Rescored(lists, pattern) ==
  [i \in DOMAIN lists |->
     [name |-> lists[i].name,
      results |->
        [r \in DOMAIN lists[i].results |->
           [lists[i].results[r] EXCEPT
              !.score = CASE pattern = "ascending" -> r
                          [] pattern = "zero" -> 0
                          [] OTHER -> 2 * MaxRank + i]]]]

ScorePatterns == {"ascending", "zero", "by_source"}

\* C8: fusion is rank-only: the same source names and the same ids in the
\* same order, with any other source-local scores, fuse to the same ids in
\* the same order with the same fused scores and source lists.
C8_FusionIsRankOnly ==
  FzDone =>
    \A pattern \in ScorePatterns :
      /\ Rescored(fz_lists, pattern) # fz_lists
         \/ \A i \in DOMAIN fz_lists : fz_lists[i].results = <<>>
      /\ Fuse(FzK, Rescored(fz_lists, pattern)) = fz_out

\* Two sources, one of them ranking two ids, fused.
C8_Witness ==
  /\ FzDone
  /\ Len(fz_lists) >= 2
  /\ Len(fz_out) >= 2
  /\ \E i \in DOMAIN fz_lists : Len(fz_lists[i].results) >= 2
  /\ \E i \in DOMAIN fz_lists : \E r \in DOMAIN fz_lists[i].results :
        Rescored(fz_lists, "ascending")[i].results[r].score
          # fz_lists[i].results[r].score

ScenarioB ==
  /\ FzK = 60
  /\ Len(fz_lists) = 2
  /\ fz_lists[1].name = "dense"
  /\ fz_lists[2].name = "sparse"
  /\ FlatIds(fz_lists, 1) = <<"A", "B", "C", "B", "A">>
  /\ Len(fz_lists[1].results) = 3

\* C9: of two ids with equal fused scores the one fusion met first (earlier
\* source, then lower rank) comes first; for dense = [A, B, C],
\* sparse = [B, A] and k = 60, A and B score the same, more than C, and the
\* output order is A, B, C.
C9_TieBreakByFirstEncounter ==
  FzDone =>
    /\ \A i, j \in DOMAIN fz_out :
          (i < j /\ fz_out[i].score = fz_out[j].score)
            => FirstSeen(fz_out[i].id) < FirstSeen(fz_out[j].id)
    /\ ScenarioB =>
          /\ OutIds = <<"A", "B", "C">>
          /\ fz_out[1].score = fz_out[2].score
          /\ fz_out[2].score > fz_out[3].score

C9_Witness == FzDone /\ ScenarioB

\* C10: every id of the input appears exactly once in the output, no other
\* id appears, none is dropped, and the output is in non-increasing order
\* of fused score.
C10_OutputCompleteAndOrdered ==
  FzDone =>
    /\ {fz_out[j].id : j \in DOMAIN fz_out} = InputIds
    /\ \A i, j \in DOMAIN fz_out : i # j => fz_out[i].id # fz_out[j].id
    /\ Len(fz_out) = Cardinality(InputIds)
    /\ \A i, j \in DOMAIN fz_out : i < j => fz_out[i].score >= fz_out[j].score

\* Three ids with three different fused scores, the best one met last.
C10_Witness ==
  /\ FzDone
  /\ Len(fz_out) = 3
  /\ fz_out[1].score > fz_out[2].score
  /\ fz_out[2].score > fz_out[3].score
  /\ FirstSeen(fz_out[1].id) > FirstSeen(fz_out[3].id)

\* The place <<list, rank>> where fusion meets an id first.
FirstOccurrence(id) ==
  CHOOSE p \in Occurrences(id) :
    \A q \in Occurrences(id) :
       p[1] < q[1] \/ (p[1] = q[1] /\ p[2] <= q[2])

\* C17: the book, range, title and text of every fused result are those of
\* the first occurrence of its id in the input (source order, then rank);
\* later occurrences only add score.  With the sources in the order dense,
\* sparse, graph, an id that dense and graph both return carries the text
\* dense gave it.
C17_PayloadOfFirstOccurrence ==
  FzDone =>
    \A j \in DOMAIN fz_out :
       LET p == FirstOccurrence(fz_out[j].id)
           first == fz_lists[p[1]].results[p[2]]
       IN /\ fz_out[j].text = first.text
          /\ fz_out[j].text = PayloadText(fz_lists[p[1]].name, p[2])
          /\ fz_out[j].book_id = first.book_id
          /\ fz_out[j].book_name = first.book_name
          /\ fz_out[j].title = first.title
          /\ fz_out[j].chapter_start = first.chapter_start
          /\ fz_out[j].verse_start = first.verse_start
          /\ fz_out[j].chapter_end = first.chapter_end
          /\ fz_out[j].verse_end = first.verse_end
          /\ fz_out[j].sources[1] = fz_lists[p[1]].name

\* Passage A is second in dense and first in graph; it carries dense's text.
C17_Witness ==
  /\ FzDone /\ Len(fz_lists) = 2
  /\ fz_lists[1].name = "dense" /\ fz_lists[2].name = "graph"
  /\ Len(fz_lists[1].results) = 2 /\ fz_lists[1].results[2].id = "A"
  /\ fz_lists[1].results[1].id = "B"
  /\ Len(fz_lists[2].results) >= 1 /\ fz_lists[2].results[1].id = "A"
  /\ \E j \in DOMAIN fz_out :
        /\ fz_out[j].id = "A" /\ fz_out[j].text = "dense2"
        /\ fz_out[j].sources = <<"dense", "graph">>

\* The input without its i-th source list.
WithoutList(lists, i) ==
  SubSeq(lists, 1, i - 1) \o SubSeq(lists, i + 1, Len(lists))

\* The fused score of an id in an output of fuse, 0 when it is not there.
ScoreIn(out, id) ==
  IF \E j \in DOMAIN out : out[j].id = id
  THEN out[CHOOSE j \in DOMAIN out : out[j].id = id].score
  ELSE 0

\* How many sources rank the id at rank r.
RankCount(id, r) == Cardinality({p \in Occurrences(id) : p[2] = r})

\* Every appearance of e is matched by an appearance of d at the same rank,
\* and d has appearances beyond those.
RankedByMore(d, e) ==
  /\ \A r \in 1..MaxLen : RankCount(e, r) <= RankCount(d, r)
  /\ \E r \in 1..MaxLen : RankCount(e, r) < RankCount(d, r)

\* C18: taking a source list that holds d away from the input, the other
\* lists unchanged, strictly lowers d's fused score (adding it strictly
\* raises it); and of two ids of which one has all the ranks of the other
\* and more appearances besides, that one scores strictly higher.
C18_MoreAppearancesScoreHigher ==
  FzDone =>
    /\ \A i \in DOMAIN fz_lists :
          \A r \in DOMAIN fz_lists[i].results :
             LET d == fz_lists[i].results[r].id
             IN ScoreIn(fz_out, d)
                  > ScoreIn(Fuse(FzK, WithoutList(fz_lists, i)), d)
    /\ \A d, e \in InputIds :
          RankedByMore(d, e) => ScoreIn(fz_out, d) > ScoreIn(fz_out, e)

\* A is first in dense and second in sparse, B is second in dense only.
C18_Witness ==
  /\ FzDone /\ Len(fz_lists) = 2
  /\ RankCount("A", 1) = 1 /\ RankCount("A", 2) = 1
  /\ RankCount("B", 2) = 1 /\ RankCount("B", 1) = 0 /\ RankCount("B", 3) = 0
  /\ RankedByMore("A", "B")
  /\ ScoreIn(fz_out, "A") > ScoreIn(fz_out, "B")
  /\ ScoreIn(Fuse(FzK, WithoutList(fz_lists, 2)), "A") < ScoreIn(fz_out, "A")

\* ====================================================================
\* Properties of ContextBuilder.build_with_metadata (under SpecContext)
\* ====================================================================
CbDone == cb_pc = "done"
CbMaxChars == MaxChars(BuilderMaxTokens(cb_arg))

\* C2: for a non-empty result list the returned context (the included
\* segments joined by the delimiter) is at most int(max_tokens * 1.5)
\* characters long, unless the first segment alone is longer than that.
C2_ContextWithinBudget ==
  (CbDone /\ cb_results # <<>>) =>
     \/ Len(cb_out.context) <= CbMaxChars
     \/ Len(FormatPericope(cb_results[1])) > CbMaxChars


\* The first n results, formatted.
FormattedPrefix(results, n) == [j \in 1..n |-> FormatPericope(results[j])]

\* C11: for a non-empty result list the included segments are a prefix of the
\* input that holds at least the first result, each included segment stands
\* whole in the context (the context is the formatted prefix joined by the
\* delimiter), and the metadata has one entry per included segment, in
\* order, with that result's id.
C11_InclusionIsAtomicPrefix ==
  (CbDone /\ cb_results # <<>>) =>
     LET n == Len(cb_out.metadata)
     IN /\ 1 <= n /\ n <= Len(cb_results)
        /\ \A j \in 1..n : cb_out.metadata[j].id = cb_results[j].id
        /\ cb_out.context = Join(FormattedPrefix(cb_results, n), DELIMITER)

\* The first segment is over the budget by itself and is the only one kept.
C11_Witness ==
  /\ CbDone /\ Len(cb_results) = 3
  /\ Len(FormatPericope(cb_results[1])) > CbMaxChars
  /\ Len(cb_out.metadata) = 1
  /\ cb_out.context = FormatPericope(cb_results[1])

\* ====================================================================
\* Properties of execute_query / RAGPipeline.execute (checked under Spec)
\* ====================================================================
Retrieved == pc \in {"assemble", "generate", "respond", "done"}
Answered == pc = "done"
ValidTypeSet == {VALID_TYPES[i] : i \in DOMAIN VALID_TYPES}

\* C3: a retriever call that raises is caught and counts as zero results, the
\* other retrievers are still called and return what their stores hold, as
\* if nothing had failed (dense and sparse run on one session), and no
\* retriever failure turns the request into an error.
C3_RetrieverFaultIsolation ==
  /\ env.dense_raised => dense_results = <<>> /\ ~InSeq("dense", used_retrievers)
  /\ env.sparse_raised => sparse_results = <<>> /\ ~InSeq("sparse", used_retrievers)
  /\ env.graph_raised => graph_results = <<>> /\ ~InSeq("graph", used_retrievers)
  /\ Retrieved => calls.dense = 1 /\ calls.sparse = 1
  /\ (Retrieved /\ ~env.dense_raised) => dense_results = env.dense_expected
  /\ (Retrieved /\ env.sparse_fault = "none") =>
        sparse_results = env.sparse_expected
  /\ pc = "error" => env.failed_at \in {"classify", "generate"}

\* C4: the query_type of every response is one of the five tags of the
\* closed set, whatever the mode and the reply of the classifier; in auto
\* mode a reply holding none of the tags gives GENERAL_BIBLE_QUESTION.
C4_QueryTypeInClosedSet ==
  /\ Answered => response.meta.query_type \in ValidTypeSet
  /\ (req.mode = "auto" /\ llm_reply # NONE
        /\ \A i \in DOMAIN llm_reply : Upper(llm_reply[i]) \notin ValidTypeSet)
       => query_type = "GENERAL_BIBLE_QUESTION"

\* The mode strings in upper case, letter for letter.
UppercasedMode ==
  [m \in Modes \ {"auto"} |->
     CASE m = "verse" -> "VERSE" [] m = "topic" -> "TOPIC"
       [] m = "person" -> "PERSON" [] m = "event" -> "EVENT"]

\* C5: a request whose mode is not auto never calls the classifier, its
\* query_type is the mode in upper case, and the graph retriever and the
\* answer generation are handed that same tag.
C5_ExplicitModeSkipsClassifier ==
  req.mode # "auto" =>
    /\ calls.classify = 0
    /\ pc # "classify" => query_type = UppercasedMode[req.mode]
    /\ Answered => response.meta.query_type = UppercasedMode[req.mode]
    /\ calls.graph > 0 => sent.graph_tag = UppercasedMode[req.mode]
    /\ calls.generate > 0 => sent.generate.query_type = UppercasedMode[req.mode]

C5_Witness ==
  /\ Answered /\ req.mode = "person"
  /\ calls.graph = 1 /\ calls.traverse > 0 /\ calls.generate = 1
  /\ response.meta.query_type = "PERSON"

\* The response of the request when graph retrieval takes no part: fused
\* from the dense and sparse results alone.
NoGraphResponse ==
  LET fused ==
        FusedAndTruncated(ResultLists(dense_results, sparse_results, <<>>),
                          req.max_results)
      built == BuildWithMetadata(BuilderMaxTokens(0), fused)
      used == (IF dense_results # <<>> THEN <<"dense">> ELSE <<>>)
                \o (IF sparse_results # <<>> THEN <<"sparse">> ELSE <<>>)
  IN [answer |-> IF fused # <<>>
                 THEN Generated(QUERY, built.context, query_type) ELSE APOLOGY,
      segments |-> Segments(fused),
      meta |-> [query_type |-> query_type, used_retrievers |-> used],
      graph_context |-> NONE]

\* C6: with the graph store unreachable the response is the one the same
\* request gets with include_graph = false: the fusion of the dense and
\* sparse results alone, no "graph" among the used retrievers, no graph
\* context; and neither entity extraction nor a traversal is run.
C6_GraphUnreachableEqualsNoGraph ==
  (~env.neo_was_up \/ ~req.include_graph) =>
    /\ calls.graph = 0 /\ calls.extract = 0 /\ calls.traverse = 0
    /\ Answered => response = NoGraphResponse

C6_Witness ==
  /\ Answered /\ ~env.neo_was_up /\ req.include_graph
  /\ Len(response.segments) = 2
  /\ response.meta.used_retrievers = <<"dense", "sparse">>

\* C7: when the fused list is empty after truncation the response carries
\* the apology, no segments and no used retrievers, the answer generation is
\* not called, and the request succeeds.
C7_NoEvidenceApology ==
  /\ (pc \in {"respond", "done"} /\ fused_results = <<>>) =>
        /\ answer = APOLOGY
        /\ calls.generate = 0
        /\ used_retrievers = <<>>
  /\ (Answered /\ fused_results = <<>>) =>
        /\ response.answer = APOLOGY
        /\ response.segments = <<>>
        /\ response.meta.used_retrievers = <<>>
        /\ http_status = 200
  /\ pc = "generate" => fused_results # <<>>
  /\ (pc = "error" /\ env.failed_at = "generate") => fused_results # <<>>

C7_Witness ==
  /\ Answered /\ fused_results = <<>>
  /\ calls.dense = 1 /\ calls.sparse = 1 /\ ~env.dense_raised
  /\ response.answer = APOLOGY


\* Fusion and context building are behind.
Assembled ==
  \/ pc \in {"generate", "respond", "done"}
  \/ pc = "error" /\ env.failed_at = "generate"

\* What the retriever of a source name handed back to execute.
ReturnedBy(name) ==
  CASE name = "dense" -> dense_results
    [] name = "sparse" -> sparse_results
    [] name = "graph" -> graph_results

\* C12: used_retrievers holds a name exactly when that retriever returned at
\* least one candidate (one that raised or returned nothing is absent), in
\* the order dense, sparse, graph; these are exactly the source names handed
\* to fusion, and fuse is not called when there is none.
C12_UsedRetrieversAreFusedSources ==
  /\ (Retrieved \/ Assembled) =>
        /\ used_retrievers =
             SelectSeq(SourceNames, LAMBDA name : ReturnedBy(name) # <<>>)
        /\ env.dense_raised => ~InSeq("dense", used_retrievers)
        /\ env.sparse_raised => ~InSeq("sparse", used_retrievers)
        /\ env.graph_raised => ~InSeq("graph", used_retrievers)
  /\ Assembled =>
        /\ sent.fusion = used_retrievers
        /\ calls.fuse = (IF used_retrievers = <<>> THEN 0 ELSE 1)

C12_Witness ==
  /\ Answered /\ env.dense_raised
  /\ used_retrievers = <<"sparse", "graph">>
  /\ sent.fusion = <<"sparse", "graph">>
  /\ response.meta.used_retrievers = <<"sparse", "graph">>


\* C13: when the classification call raises (mode auto) no retriever and no
\* generation call is made and the endpoint answers 500; when the generation
\* call raises the endpoint answers 500 with no answer and no segments; the
\* failed call is made once, and nothing stands in for its result.
C13_LLMFailuresAreFatal ==
  /\ env.failed_at # "none" =>
        /\ pc = "error" /\ http_status = 500
        /\ response = NONE /\ answer = NONE
  /\ env.failed_at = "classify" =>
        /\ req.mode = "auto" /\ calls.classify = 1 /\ query_type = NONE
        /\ calls.dense = 0 /\ calls.sparse = 0 /\ calls.graph = 0
        /\ calls.extract = 0 /\ calls.traverse = 0 /\ calls.generate = 0
  /\ env.failed_at = "generate" => calls.generate = 1
  /\ http_status = 500 <=> pc = "error"

C13_Witness ==
  /\ pc = "error" /\ env.failed_at = "generate"
  /\ http_status = 500 /\ response = NONE
  /\ fused_results # <<>> /\ calls.generate = 1


\* C14: when the truncated fused list is not empty, generate_answer is
\* called exactly once in the request, after the context was built, with the
\* query, the context string the builder returned for that list and the
\* classification tag; it is never called a second time.
C14_GenerateCalledOnceWithContext ==
  /\ calls.generate <= 1
  /\ (Assembled /\ pc # "generate") =>
        calls.generate = (IF fused_results # <<>> THEN 1 ELSE 0)
  /\ calls.generate = 1 =>
        /\ calls.build = 1 /\ fused_results # <<>>
        /\ sent.generate =
             [query |-> QUERY,
              context |->
                BuildWithMetadata(BuilderMaxTokens(0), fused_results).context,
              query_type |-> query_type]
  /\ (Answered /\ fused_results # <<>>) =>
        response.answer =
          Generated(QUERY, sent.generate.context, sent.generate.query_type)

C14_Witness ==
  /\ Answered /\ Len(fused_results) = 2
  /\ calls.generate = 1 /\ calls.build = 1
  /\ sent.generate.context = context
  /\ sent.generate.context # NO_VERSES_TEXT


\* The fused list of the request before truncation.
FullFusion ==
  LET result_lists == ResultLists(dense_results, sparse_results, graph_results)
  IN IF result_lists # <<>> THEN Fuse(FusionK(0), result_lists) ELSE <<>>

\* The truncated list is the first min(max_results, n) entries of the fused
\* list, entry for entry, the segments of the response are built from it in
\* order, fuse ran at most once, and max_results is within its range.
TruncationKeepsPrefix ==
  /\ req.max_results \in 1..MAX_RESULTS_LIMIT
  /\ ~req.options_given => req.max_results = TOP_K_PERICOPES
  /\ calls.fuse <= 1
  /\ Assembled =>
        /\ Len(fused_results) = Min(req.max_results, Len(FullFusion))
        /\ \A j \in DOMAIN fused_results : fused_results[j] = FullFusion[j]
  /\ Answered =>
        /\ Len(response.segments) = Min(req.max_results, Len(FullFusion))
        /\ Len(response.segments) <= req.max_results
        /\ \A j \in DOMAIN response.segments :
              /\ response.segments[j].id = FullFusion[j].id
              /\ response.segments[j].book = FullFusion[j].book_name
              /\ response.segments[j].title = FullFusion[j].title

\* C15 (as stated): the segments of the response are the first
\* min(max_results, n) entries of the fused list in fused order, and each
\* carries the fused score of its entry unchanged.
C15_SegmentsCarryFusedScores ==
  /\ TruncationKeepsPrefix
  /\ Answered =>
        \A j \in DOMAIN response.segments :
           response.segments[j].relevance_score = FullFusion[j].score

\* C15 (amended): the segments of the response are the first
\* min(max_results, n) entries of the fused list in fused order, at most
\* max_results of them, fusion is not run again after truncation, and each
\* segment carries its entry's fused score times ten, capped at 1.0.
C15_TruncationKeepsFusedPrefix ==
  /\ TruncationKeepsPrefix
  /\ Answered =>
        \A j \in DOMAIN response.segments :
           response.segments[j].relevance_score =
             Min(Scale(FusionK(0)), 10 * FullFusion[j].score)

C15_Witness ==
  /\ Answered /\ req.max_results = 1
  /\ Len(FullFusion) = 2 /\ Len(response.segments) = 1
  /\ response.segments[1].id = FullFusion[1].id
  /\ FullFusion[1].score > FullFusion[2].score


\* C16: graph_retriever.retrieve is called in a request only when the
\* options of the request ask for it and the graph store is available at
\* that moment; a request whose body gives no options has include_graph
\* false, so no graph retrieval and no entity extraction happen for it.
C16_GraphOnlyOnRequest ==
  /\ [](/\ calls.graph > 0 => req.include_graph /\ env.neo_was_up
        /\ (calls.extract > 0 \/ calls.traverse > 0) => calls.graph > 0
        /\ ~req.options_given =>
              /\ ~req.include_graph
              /\ calls.graph = 0 /\ calls.extract = 0 /\ calls.traverse = 0
              /\ ~InSeq("graph", used_retrievers))
  /\ [][calls'.graph > calls.graph =>
          req.include_graph /\ neo_initialized /\ neo_driver]_vars

C16_Witness ==
  /\ Answered /\ ~req.options_given
  /\ env.neo_was_up /\ neo_driver /\ neo_initialized
  /\ calls.graph = 0 /\ calls.extract = 0
  /\ response.segments # <<>>


\* The place of a position of the request in the order of the stages.
StageRank(stage) ==
  CASE stage = "classify" -> 1
    [] stage = "dense" -> 2
    [] stage = "sparse" -> 3
    [] stage = "graph" -> 4
    [] stage = "extract" -> 5
    [] stage = "traverse" -> 6
    [] stage = "assemble" -> 7
    [] stage = "generate" -> 8
    [] stage = "respond" -> 9
    [] OTHER -> 10

\* C20: within a request the stages come only in the order classify,
\* dense, sparse, graph, fuse and truncate and build the context, generate,
\* respond; no stage runs twice and none is gone back to; and fusion starts
\* only when the dense, sparse and (if entered) graph retrievals are over.
C20_StagesInOrderOnce ==
  /\ [](/\ calls.classify <= 1 /\ calls.dense <= 1 /\ calls.sparse <= 1
        /\ calls.graph <= 1 /\ calls.extract <= 1
        /\ calls.fuse <= 1 /\ calls.build <= 1 /\ calls.generate <= 1
        /\ calls.build = 1 =>
              /\ calls.dense = 1 /\ calls.sparse = 1
              /\ pc \notin {"classify", "dense", "sparse", "graph",
                             "extract", "traverse", "assemble"})
  /\ [][/\ pc' # pc => StageRank(pc') > StageRank(pc)
        /\ calls'.build > calls.build =>
              /\ pc = "assemble" /\ StageRank(pc') > StageRank("assemble")
              /\ calls.dense = 1 /\ calls.sparse = 1
              /\ calls.graph = 1 => calls.extract = 1]_vars

C20_Witness ==
  /\ Answered
  /\ calls = [classify |-> 1, dense |-> 1, sparse |-> 1, graph |-> 1,
              extract |-> 1, traverse |-> 3, fuse |-> 1, build |-> 1,
              generate |-> 1]

\* A retrieval is over once the step that makes its call has been taken:
\* each retrieval step of execute awaits its retriever to completion.
DenseOver == calls.dense > 0
SparseStarted == calls.sparse > 0

\* C21: the retrievals fan out: every branch is started before any branch
\* is awaited to completion, so whenever the dense retrieval is over the
\* sparse retrieval has already been started.
C21_BranchesStartBeforeAnyCompletes ==
  DenseOver => SparseStarted

\* ====================================================================
\* Properties of the graph context (checked under SpecGraphContext)
\* ====================================================================
GcDone == gc_pc = "done"

\* The results whose graph context is of the type and names an entity.
Carriers(type) ==
  {r \in DOMAIN gc_results :
     /\ gc_results[r].graph_context.type = type
     /\ gc_results[r].graph_context.entities # <<>>}

\* The names the carriers of a type name.
CarriedNames(type) ==
  UNION {{gc_results[r].graph_context.entities[e] :
            e \in DOMAIN gc_results[r].graph_context.entities} :
         r \in Carriers(type)}

\* No name twice, at most the cap, every name from the given set.
CappedDistinct(names, allowed) ==
  /\ Len(names) <= GRAPH_CONTEXT_CAP
  /\ \A i, j \in DOMAIN names : i # j => names[i] # names[j]
  /\ \A i \in DOMAIN names : names[i] \in allowed

HoldsEmbedding(r) == svc_req[r].embed_service # 0
HoldsLLM(r) == svc_req[r].llm_client # 0

\* At most one object of each kind, every handle is that object, and the
\* model was constructed at most once.
OneInstanceEach ==
  /\ Len(embedding_objects) <= 1 /\ Len(llm_objects) <= 1
  /\ model_loads <= 1
  /\ \A r \in DOMAIN svc_req :
        /\ HoldsEmbedding(r) => svc_req[r].embed_service = embedding_service
        /\ HoldsLLM(r) => svc_req[r].llm_client = llm_client

\* The step in which request r runs the pipeline.
Executes(r) == svc_req[r].pc = "execute" /\ svc_req'[r].pc # "execute"

SharedObjectsUntouched ==
  /\ embedding_objects' = embedding_objects /\ llm_objects' = llm_objects
  /\ embedding_service' = embedding_service /\ llm_client' = llm_client

C28_ReturnedServiceIsInitialized ==
  \A r \in DOMAIN svc_req :
    svc_req[r].pc = "get_llm_client" =>
      /\ embedding_objects[svc_req[r].embed_service].initialized
      /\ embedding_objects[svc_req[r].embed_service].model


RequestOver(r) == svc_req[r].pc = "done"
Answering(r) == svc_req[r].pc \in {"teardown", "done"}

\* C23: a request holds an open session from its start until it ends, the
\* session is closed once the request is over, whether the endpoint
\* returned a response or answered HTTP 500, and every request gets there.
C23_SessionReleasedAtRequestEnd ==
  /\ [](\A r \in DOMAIN svc_req :
          /\ svc_req[r].session = "closed" <=> RequestOver(r)
          /\ svc_req[r].session = "open" <=>
                svc_req[r].pc \notin {"get_db_session", "done"}
          /\ svc_req[r].http_status # 0 <=> Answering(r))
  /\ <>(\A r \in DOMAIN svc_req :
           RequestOver(r) /\ svc_req[r].session = "closed")

C23_Witness ==
  /\ svc_req # <<>>
  /\ \A r \in DOMAIN svc_req :
        RequestOver(r) /\ svc_req[r].session = "closed"
  /\ \E r \in DOMAIN svc_req :
        svc_req[r].http_status = 500 /\ svc_req[r].llm_client = 1
  /\ \E r \in DOMAIN svc_req : svc_req[r].http_status = 200
  /\ load_failures > 0


\* ====================================================================
\* Properties of SparseRetriever.retrieve (checked under SpecSparse)
\* ====================================================================
SpDone == sp_pc = "done"

\* The raw rank the verse query gave the passage.
RawRankOf(id) ==
  LET n == CHOOSE m \in DOMAIN sp_rows : sp_rows[m].pericope_id = id
  IN sp_rows[n].rank

SpAtMostTopK == SpDone => Len(sp_out) <= sp_top_k

SpDistinctIds ==
  SpDone => \A i, j \in DOMAIN sp_out : i # j => sp_out[i].id # sp_out[j].id

\* C24: retrieve returns at most top_k candidates with distinct passage
\* ids, and a passage of strictly higher raw rank comes before every
\* returned passage of lower raw rank.
C24_SparseOrderedByRawRank ==
  /\ SpAtMostTopK
  /\ SpDistinctIds
  /\ SpDone =>
       \A i, j \in DOMAIN sp_out :
          RawRankOf(sp_out[i].id) > RawRankOf(sp_out[j].id) => i < j


\* ====================================================================
\* Properties of the graph step (checked under SpecGraph)
\* ====================================================================
GrDone == gr_pc = "done"
GrReturned == GrDone /\ Len(gr_parts) = Len(Traversals(gr_query_type))
GrGeneral == GrReturned /\ Strategy(gr_query_type) = "general"
GrMerged == gr_parts[1] \o gr_parts[2] \o gr_parts[3]
GrDistinctIds ==
  \A i, j \in DOMAIN gr_out : i # j => gr_out[i].id # gr_out[j].id

\* C25: for a tag other than the three scoped ones retrieve makes the
\* three traversals and returns, of their merged results, no passage
\* twice, for each passage a candidate of the highest score it has among
\* them, in non-increasing score order, and at most top_k candidates.
C25_GeneralDedupKeepsBest ==
  /\ GrReturned =>
       (Len(gr_parts) = 3 <=>
          gr_query_type \notin
            {"PERSON_QUESTION", "TOPIC_QUESTION", "EVENT_QUESTION"})
  /\ GrGeneral =>
       /\ GrDistinctIds
       /\ \A i \in DOMAIN gr_out :
             /\ InSeq(gr_out[i], GrMerged)
             /\ \A m \in DOMAIN GrMerged :
                   GrMerged[m].id = gr_out[i].id =>
                     GrMerged[m].score <= gr_out[i].score
       /\ \A i, j \in DOMAIN gr_out :
             i < j => gr_out[i].score >= gr_out[j].score
       /\ Len(gr_out) <= gr_top_k

C25_Witness ==
  /\ GrGeneral
  /\ gr_top_k = 1 /\ Len(gr_out) = 1
  /\ gr_parts[1] # <<>> /\ gr_parts[2] # <<>>
  /\ gr_parts[1][1].id = gr_out[1].id
  /\ gr_parts[1][1].score < gr_out[1].score
  /\ \E m \in DOMAIN GrMerged : GrMerged[m].id # gr_out[1].id


\* C27: for every tag the list retrieve returns holds no passage twice.
C27_GraphResultsHaveDistinctIds ==
  GrReturned => GrDistinctIds

GrScoped == GrReturned /\ Strategy(gr_query_type) # "general"

SrDone == sr_pc = "done"

IdsOf(seq) == [i \in DOMAIN seq |-> seq[i].id]

\* C26: the ids of the response's segments, in order, are the ids of the
\* metadata of the segments build_with_metadata included in the context, so
\* every passage reported as a source had its text in the context string.
C26_SegmentsAreIncludedPassages ==
  SrDone => IdsOf(sr_segments) = IdsOf(sr_metadata)

\* What the code does guarantee: the included passages are a prefix of the
\* reported ones.
SrIncludedIsPrefix ==
  SrDone =>
    /\ Len(sr_metadata) <= Len(sr_segments)
    /\ IdsOf(sr_metadata) = Prefix(IdsOf(sr_segments), Len(sr_metadata))
    /\ sr_segments # <<>> => sr_metadata # <<>>


\* ====================================================================
\* Properties of the Neo4jClient lifecycle (checked under SpecNeo4j)
\* ====================================================================
NjAvailable == IsAvailable(nj_initialized, nj_driver # 0)

\* _initialized implies a driver, and an available driver is a verified one.
NjInitializedHasDriver ==
  /\ nj_initialized => nj_driver # 0
  /\ NjAvailable => nj_drivers[nj_driver].verified

\* Unavailable after close() or a failed initialize(), until an
\* initialize() succeeds.
NjDownIsUnavailable == nj_last = "down" => ~NjAvailable

\* initialize() that finds a driver creates none.
NjNoSecondDriver ==
  \A i \in DOMAIN nj_calls :
     nj_calls[i].op = "initialize" /\ nj_calls[i].found # 0 =>
       ~nj_calls[i].created

\* No initialize() or close() began while another one was awaiting.
NjSerial == \A i \in DOMAIN nj_calls : nj_calls[i].alone

\* C29 as stated: the three parts of the lifecycle invariant hold in every
\* state reachable by any interleaving of initialize(), close() and reads.
C29_LifecycleInvariantAnyInterleaving ==
  /\ NjInitializedHasDriver
  /\ NjDownIsUnavailable
  /\ NjNoSecondDriver

\* C29 amended: the three parts hold in every state reached by
\* initialize() and close() calls none of which begins while another is
\* awaiting (reads may be under way at any time); the guard of
\* initialize() against a second driver holds in every state.
C29_LifecycleInvariantSerialCalls ==
  /\ NjSerial => NjInitializedHasDriver /\ NjDownIsUnavailable
  /\ NjNoSecondDriver

\* initialize() succeeded, a read is under way, close() returned, a second
\* initialize() found no driver and failed to connect.
C29_Witness ==
  /\ NjSerial
  /\ Len(nj_drivers) = 2
  /\ nj_drivers[1].verified /\ nj_drivers[1].closed
  /\ \E i \in DOMAIN nj_calls :
        nj_calls[i].op = "read" /\ nj_calls[i].driver = 1
  /\ nj_last = "down" /\ nj_driver = 0 /\ ~nj_initialized

====
